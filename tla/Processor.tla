------------------------------ MODULE Processor ------------------------------
(***************************************************************************)
(* Thread 0 of the CQAM virtual machine: the fetch-execute loop of the     *)
(* runner, the classical instructions with the flags they leave, the call  *)
(* stack, and the traps with their handler table.  One step is one turn of *)
(* the loop: the cycle limit, execute_instruction, dispatch_pending_traps. *)
(*                                                                         *)
(* Integers are Width bits wide.  Floats and complex numbers, the two      *)
(* memories and the quantum state are left out: an instruction that works  *)
(* on them sets the flags in every way that a result can.                  *)
(***************************************************************************)
EXTENDS Integers, Sequences

CONSTANTS
    Width,          \* bits of an integer register
    Regs,           \* the R registers in use
    Programs,       \* the programs: sequences of instructions
    MaxCycles,      \* SimConfig.max_cycles
    None            \* no handler

\* (How powers of two grow is for the provers, which do not know it.)
ASSUME WidthAssumption == Width \in Nat /\ Width >= 2 /\ \A k \in 0 .. Width : 2^k > k
ASSUME MaxCyclesAssumption == MaxCycles \in Nat

Half == 2^(Width - 1)
Word == -Half .. Half - 1
Wrap(x) == ((x + Half) % (2 * Half)) - Half

\* What the assembler and the decoder let through: registers that exist, immediates of a
\* word, and branches to an address, or to a label that nobody defined.
ReadsA == {"IADD", "ISUB", "IMUL", "IINC", "IDEC", "IDIV", "IMOD", "ISHL", "ISHR", "IEQ", "ILT",
           "IGT", "ICMP"}
ReadsB == {"IADD", "ISUB", "IMUL", "IDIV", "IMOD", "IEQ", "ILT", "IGT", "ICMP", "ILDI"}
Branches == {"JMP", "JIF", "JMPF", "JMPFN", "JGT", "JLE", "CALL", "SETIV"}
WellFormed(i) ==
    /\ i.op \in ReadsA => i.a \in Regs
    /\ i.op \in ReadsB => IF "imm" \in DOMAIN i THEN i.imm \in Word ELSE i.b \in Regs
    /\ i.op \in {"ISHL", "ISHR"} => "imm" \in DOMAIN i /\ i.imm \in Nat
    /\ i.op \in {"JMPF", "JMPFN"} => i.flag \in {"zf", "nf", "of", "pf"}
    /\ i.op \in Branches => i.to \in Nat \cup {None}
ASSUME ProgramsAssumption == \A p \in Programs : \A k \in 1 .. Len(p) : WellFormed(p[k])

Traps == {"arith", "quantum", "sync"}
Flag == [{"zf", "nf", "of", "pf"} -> BOOLEAN]
NoTraps == [t \in Traps |-> FALSE]
Machine == [pc : Nat, regs : [Regs -> Word], flags : Flag, traps : [Traps -> BOOLEAN],
            halt : BOOLEAN, stack : Seq(Nat), isr : [Traps -> Nat \cup {None}]]

VARIABLES
    program,        \* ExecutionContext.program
    enabled,        \* SimConfig.enable_interrupts
    m,              \* the ExecutionContext
    cycles,         \* cycle_count
    status,         \* "runs", "done", "error" (the loop returned Err), "panic"
    sites,          \* history: where each entry of the call stack came from
    compared        \* history: the operands of the last ICMP, if it set ZF, NF and OF

vars == <<program, enabled, m, cycles, status, sites, compared>>

Init ==
    /\ program \in Programs
    /\ enabled \in BOOLEAN
    /\ m = [pc |-> 1, regs |-> [r \in Regs |-> 0],
            flags |-> [f \in {"zf", "nf", "of", "pf"} |-> FALSE],
            traps |-> NoTraps, halt |-> FALSE, stack |-> <<>>, isr |-> [t \in Traps |-> None]]
    /\ cycles = 0
    /\ status = "runs"
    /\ sites = <<>>
    /\ compared = <<>>

-----------------------------------------------------------------------------
(***************************************************************************)
(* Results and flags.  x is the exact result, before it is cut to a word.  *)
(***************************************************************************)
\* update_from_arithmetic_with_overflow; the other updates are the case x = Wrap(x).
Flagged(f, x) == [f EXCEPT !.zf = Wrap(x) = 0, !.nf = Wrap(x) < 0, !.of = x # Wrap(x)]

\* Past an instruction that does nothing else, or wrote x to register d, or raised a trap.
Past(c) == [c EXCEPT !.pc = @ + 1]
\* (Faulty: the result is not cut to a word.)
WrittenWhole(c, d, x) == [Past(c) EXCEPT !.regs[d] = x, !.flags = Flagged(@, x)]
Written(c, d, x) == [Past(c) EXCEPT !.regs[d] = Wrap(x), !.flags = Flagged(@, x)]
Loaded(c, d, x) == [Past(c) EXCEPT !.regs[d] = x, !.flags.zf = x = 0]
Raised(c, t) == [Past(c) EXCEPT !.traps[t] = TRUE]

\* Truncating division.
Abs(x) == IF x < 0 THEN -x ELSE x
Quotient(a, b) == IF (a < 0) = (b < 0) THEN Abs(a) \div Abs(b) ELSE -(Abs(a) \div Abs(b))
Remainder(a, b) == a - b * Quotient(a, b)

\* Flags that a float, or a complex number, can leave.
FloatFlags(f) == {g \in Flag : g.pf = f.pf /\ ~(g.zf /\ g.nf)}
ComplexFlags(f) == {g \in FloatFlags(f) : ~g.nf}

\* The condition of JGT.  (Faulty: NF alone, which is wrong when ICMP overflowed.)
GreaterByNF(f) == ~f.zf /\ ~f.nf
Greater(f) == ~f.zf /\ f.nf = f.of

-----------------------------------------------------------------------------
(***************************************************************************)
(* Traps.                                                                  *)
(***************************************************************************)
Halted(c) == [c EXCEPT !.halt = TRUE]

\* handle_trap: jump to the handler, or halt when there is none.
\* (Faulty: the handler returns behind the next instruction, as from a CALL.)
EnterAsCall(c, handler) == [c EXCEPT !.stack = Append(@, c.pc + 1), !.pc = handler]
Enter(c, handler) == [c EXCEPT !.stack = Append(@, c.pc), !.pc = handler]
Handle(c, t) ==
    IF ~enabled THEN c
    ELSE IF c.isr[t] # None THEN Enter(c, c.isr[t]) ELSE Halted(c)

\* dispatch_pending_traps: a pending trap is acknowledged, then handled.
\* (Faulty: the acknowledgement is left to RETI.)
AnswerUnacknowledged(c, t) == IF c.traps[t] THEN Handle(c, t) ELSE c
Answer(c, t) == IF c.traps[t] THEN Handle([c EXCEPT !.traps[t] = FALSE], t) ELSE c
Dispatch(c) == Answer(Answer(Answer(c, "arith"), "quantum"), "sync")

-----------------------------------------------------------------------------
(***************************************************************************)
(* The loop of the runner.                                                 *)
(***************************************************************************)
Instr == program[m.pc]
Running == status = "runs" /\ m.pc \in 1 .. Len(program)
Executes(ops) == Running /\ cycles < MaxCycles /\ Instr.op \in ops

\* Instructions that leave ZF, NF and OF alone.
Neutral == {"ISTRX", "FSTRX", "FMOV", "JMP", "JIF", "JMPF", "JMPFN", "JGT", "JLE", "CALL", "RET", "RETI",
            "SETIV", "NOP", "ECALL", "HALT", "QKERNEL", "QLOAD"}

\* The instruction leaves context c: the turn ends with the dispatch of its traps.
Retire(c) ==
    LET d == Dispatch(c) IN
    /\ m' = d
    /\ cycles' = cycles + 1
    /\ status' = IF d.halt THEN "done" ELSE "runs"
    /\ sites' = CASE Len(d.stack) > Len(m.stack) -> Append(sites, m.pc)
                  [] Len(d.stack) < Len(m.stack) -> SubSeq(sites, 1, Len(d.stack))
                  [] OTHER -> sites
    /\ compared' = IF Instr.op \in Neutral THEN compared ELSE <<>>
    /\ UNCHANGED <<program, enabled>>

\* execute_instruction returns an error, or panics.
Stop(how) ==
    /\ status' = how
    /\ UNCHANGED <<program, enabled, m, cycles, sites, compared>>

Limit ==
    /\ Running /\ cycles >= MaxCycles
    /\ m' = Halted(m)
    /\ status' = "done"
    /\ UNCHANGED <<program, enabled, cycles, sites, compared>>

\* The program counter leaves the program.
Finish == status = "runs" /\ m.pc \notin 1 .. Len(program) /\ Stop("done")

-----------------------------------------------------------------------------
(***************************************************************************)
(* The instructions.                                                       *)
(***************************************************************************)
A == m.regs[Instr.a]
B == IF "imm" \in DOMAIN Instr THEN Instr.imm ELSE m.regs[Instr.b]

\* IADD, ISUB, IMUL; IINC, IDEC.
Arithmetic ==
    \/ Executes({"IADD"}) /\ Retire(Written(m, Instr.d, A + B))
    \/ Executes({"ISUB"}) /\ Retire(Written(m, Instr.d, A - B))
    \/ Executes({"IMUL"}) /\ Retire(Written(m, Instr.d, A * B))

Increment ==
    \/ Executes({"IINC"}) /\ Retire(Written(m, Instr.d, A + 1))
    \/ Executes({"IDEC"}) /\ Retire(Written(m, Instr.d, A - 1))

\* IDIV, IMOD.  Rust panics when the quotient does not fit.
DivideByZero ==
    /\ Executes({"IDIV", "IMOD"}) /\ B = 0
    /\ Retire([Raised(m, "arith") EXCEPT !.regs[Instr.d] = 0])
DivideOverflows == Executes({"IDIV", "IMOD"}) /\ A = -Half /\ B = -1 /\ Stop("panic")
Divide ==
    /\ Executes({"IDIV", "IMOD"}) /\ B # 0 /\ ~(A = -Half /\ B = -1)
    /\ Retire(Written(m, Instr.d, IF Instr.op = "IDIV" THEN Quotient(A, B) ELSE Remainder(A, B)))

\* IMOV is a shift by 0; the amount is at most Width - 1 and nothing overflows.
Shift ==
    LET k == IF B < Width THEN B ELSE Width - 1 IN
    \/ Executes({"ISHL"}) /\ Retire(Written(m, Instr.d, Wrap(A * 2^k)))
    \/ Executes({"ISHR"}) /\ Retire(Written(m, Instr.d, A \div 2^k))

\* IAND, IOR, IXOR, INOT: any word.
Bitwise == Executes({"IAND"}) /\ \E x \in Word : Retire(Written(m, Instr.d, x))

\* ILDI; ILDM and ILDX load any word.  validate_indirect_addr refuses a
\* negative address (the largest one is not reached by a narrow word).
LoadImmediate == Executes({"ILDI"}) /\ Retire(Loaded(m, Instr.d, B))
Indirect == {"ILDX", "ISTRX", "FLDX", "FSTRX"}
BadAddress == Executes(Indirect) /\ A < 0 /\ Stop("error")
LoadIndirect == Executes({"ILDX"}) /\ A >= 0 /\ \E x \in Word : Retire(Loaded(m, Instr.d, x))
StoreIndirect == Executes({"ISTRX"}) /\ A >= 0 /\ Retire(Past(m))

\* FLDX, ZLDX; FSTRX, ZSTRX.
FloatIndirect ==
    \/ Executes({"FLDX"}) /\ A >= 0 /\ \E z \in BOOLEAN : Retire([Past(m) EXCEPT !.flags.zf = z])
    \/ Executes({"FSTRX"}) /\ A >= 0 /\ Retire(Past(m))

\* IEQ, ILT, IGT: OF stays as it was.
Compare ==
    /\ Executes({"IEQ", "ILT", "IGT"})
    /\ LET holds == \/ Instr.op = "IEQ" /\ A = B
                    \/ Instr.op = "ILT" /\ A < B
                    \/ Instr.op = "IGT" /\ A > B
       IN  Retire([Past(m) EXCEPT !.regs[Instr.d] = IF holds THEN 1 ELSE 0,
                      !.flags = [@ EXCEPT !.pf = holds, !.zf = A = B, !.nf = A < B]])

\* ICMP, ICMPI.
ICmp ==
    /\ Executes({"ICMP"})
    /\ m' = [Past(m) EXCEPT !.flags = Flagged(@, A - B)]
    /\ cycles' = cycles + 1
    /\ compared' = <<A, B>>
    /\ UNCHANGED <<program, enabled, status, sites>>

\* FMOV and ZMOV leave the flags alone.
FloatMove == Executes({"FMOV"}) /\ Retire(Past(m))
\* Float and complex arithmetic; FSIN, FCOS, FATAN2.
Transcendental == Executes({"FSIN"}) /\ \E f \in FloatFlags(m.flags) : Retire([Past(m) EXCEPT !.flags = f])
FloatArithmetic == Executes({"FADD", "FDIV"}) /\ \E f \in FloatFlags(m.flags) :
                       Retire([Past(m) EXCEPT !.flags = f])
ComplexArithmetic == Executes({"ZDIV"}) /\ \E f \in ComplexFlags(m.flags) :
                         Retire([Past(m) EXCEPT !.flags = f])
FloatDivideByZero == Executes({"FDIV", "ZDIV"}) /\ Stop("error")
\* FSQRT of a negative number leaves the flags alone.
SquareRoot ==
    /\ Executes({"FSQRT"})
    /\ \/ Retire(Raised(m, "arith"))
       \/ \E f \in ComplexFlags(m.flags) : Retire([Past(m) EXCEPT !.flags = f])
\* FEQ, FLT, FGT write 0 or 1 to an integer register.
FloatCompare ==
    /\ Executes({"FEQ"})
    /\ \E f \in Flag : /\ f.of = m.flags.of /\ ~(f.zf /\ f.nf)
                       /\ Retire([Past(m) EXCEPT !.regs[Instr.d] = IF f.pf THEN 1 ELSE 0, !.flags = f])
\* HREDUCE: what a function makes of a value of the hybrid register, if it takes it.
Takes(f, kind) ==
    CASE f \in {"round", "floor", "ceil", "trunc", "abs", "negate"} ->
            kind \in {"float", "complex", "dist", "hist", "int"}
      [] f \in {"magnitude", "phase", "real", "imag", "conj_z", "negate_z"} -> kind \in {"complex", "float"}
      [] f \in {"mean", "variance"} -> kind \in {"dist", "hist", "int", "float"}
      [] f \in {"mode", "argmax"} -> kind \in {"dist", "hist", "int"}
      [] f = "expect" -> kind \in {"dist", "hist"}
ToInteger == {"round", "floor", "ceil", "trunc", "abs", "negate", "mode", "argmax"}
ToComplex == {"conj_z", "negate_z"}
HybridKinds == {"empty", "int", "float", "complex", "dist", "hist"}

\* ZF and NF tell of the result (of a complex one only ZF); OF and PF stay as they were.
Reduce ==
    /\ Executes({"HREDUCE"})
    /\ \E kind \in HybridKinds :
         \/ ~Takes(Instr.fun, kind) /\ Stop("error")
         \/ /\ Takes(Instr.fun, kind) /\ Instr.fun \in ToInteger
            /\ \E x \in Word :
                 Retire([Past(m) EXCEPT !.regs[Instr.d] = x, !.flags = [@ EXCEPT !.zf = x = 0, !.nf = x < 0]])
         \/ /\ Takes(Instr.fun, kind) /\ Instr.fun \in ToComplex
            /\ \E z \in BOOLEAN : Retire([Past(m) EXCEPT !.flags.zf = z])
         \/ /\ Takes(Instr.fun, kind) /\ Instr.fun \notin ToInteger \cup ToComplex
            /\ \E f \in FloatFlags(m.flags) : Retire([Past(m) EXCEPT !.flags = [f EXCEPT !.of = m.flags.of]])

\* The conversions; loads of floats and complex numbers only have ZF.
Convert ==
    \/ Executes({"CVTFI"}) /\ \E x \in Word, o \in BOOLEAN :
          Retire([Loaded(m, Instr.d, x) EXCEPT !.flags.of = o])
    \/ Executes({"FLDI"}) /\ \E z \in BOOLEAN : Retire([Past(m) EXCEPT !.flags.zf = z])
    \/ Executes({"CVTIF"}) /\ \E z, o \in BOOLEAN :
          Retire([Past(m) EXCEPT !.flags = [@ EXCEPT !.zf = z, !.of = o]])

\* IQCFG: 0 and a trap when no register can have the configured number of qubits.
QubitConfig ==
    /\ Executes({"IQCFG"})
    /\ \/ Retire([Raised(m, "arith") EXCEPT !.regs[Instr.d] = 0])
       \/ Retire([Past(m) EXCEPT !.regs[Instr.d] = 1, !.flags = [@ EXCEPT !.zf = FALSE, !.nf = FALSE]])

\* A quantum instruction that leaves a purity above or below min_purity.
Kernel == Executes({"QKERNEL"}) /\ \E c \in {Past(m), Raised(m, "quantum")} : Retire(c)

\* QLOAD and QSTORE with no Bell pair left raise the trap, but then return an error.
Exhausted ==
    /\ Executes({"QLOAD"})
    /\ m' = [m EXCEPT !.traps["quantum"] = TRUE]
    /\ status' = "error"
    /\ UNCHANGED <<program, enabled, cycles, sites, compared>>
Teleport == Executes({"QLOAD"}) /\ Retire(Past(m))

\* JMPF, JMPFN, JGT and JLE leave in PF whether the jump was taken.
OnFlags == {"JMPF", "JMPFN", "JGT", "JLE"}
Taken(f) == \/ Instr.op \in {"JMP", "CALL"}
            \/ Instr.op = "JIF" /\ A # 0
            \/ Instr.op = "JMPF" /\ f[Instr.flag]
            \/ Instr.op = "JMPFN" /\ ~f[Instr.flag]
            \/ Instr.op = "JGT" /\ Greater(f)
            \/ Instr.op = "JLE" /\ ~Greater(f)

\* jump_to_label, once the jump is decided; SETIV looks its label up at once.  The program
\* stops with the return address of a CALL already pushed and PF already written.
UnknownLabel ==
    /\ Executes(Branches) /\ Instr.to = None
    /\ Taken(m.flags) \/ Instr.op = "SETIV"
    /\ m' = CASE Instr.op = "CALL" -> [m EXCEPT !.stack = Append(@, m.pc + 1)]
              [] Instr.op \in OnFlags -> [m EXCEPT !.flags.pf = TRUE]
              [] OTHER -> m
    /\ status' = "error"
    /\ sites' = IF Instr.op = "CALL" THEN Append(sites, m.pc) ELSE sites
    /\ UNCHANGED <<program, enabled, cycles, compared>>
Labelled(ops) == Executes(ops) /\ Instr.to # None
Goto(c) == [c EXCEPT !.pc = Instr.to]

\* A jump that is not taken never looks its label up.
Jump ==
    \/ Labelled({"JMP", "JIF"}) /\ Taken(m.flags) /\ Retire(Goto(m))
    \/ Executes({"JMP", "JIF"}) /\ ~Taken(m.flags) /\ Retire(Past(m))
FlagJump ==
    \/ Labelled(OnFlags) /\ Taken(m.flags) /\ Retire([Goto(m) EXCEPT !.flags.pf = TRUE])
    \/ Executes(OnFlags) /\ ~Taken(m.flags) /\ Retire([Past(m) EXCEPT !.flags.pf = FALSE])

Call == Labelled({"CALL"}) /\ Retire([Goto(m) EXCEPT !.stack = Append(@, m.pc + 1)])

\* RET and RETI pop the same stack; with an empty one both stop the machine.
Pop(c) == [c EXCEPT !.pc = c.stack[Len(c.stack)], !.stack = SubSeq(@, 1, Len(@) - 1)]
Underflow == Executes({"RET", "RETI"}) /\ m.stack = <<>> /\ Retire(Halted(m))
Ret == Executes({"RET"}) /\ m.stack # <<>> /\ Retire(Pop(m))
Reti == Executes({"RETI"}) /\ m.stack # <<>> /\ Retire([Pop(m) EXCEPT !.traps = NoTraps])

SetIV == Labelled({"SETIV"}) /\ Retire([Past(m) EXCEPT !.isr[Instr.trap] = Instr.to])
Halt == Executes({"HALT"}) /\ Retire(Halted(m))
Nop == Executes({"NOP"}) /\ Retire(Past(m))

\* ECALL prints; PRINT_HIST refuses an index that is no H register.
Ecall == Executes({"ECALL"}) /\ (Retire(Past(m)) \/ Stop("error"))

Next ==
    \/ Limit \/ Finish
    \/ Arithmetic \/ Increment \/ DivideByZero \/ DivideOverflows \/ Divide \/ Shift \/ Bitwise
    \/ LoadImmediate \/ BadAddress \/ LoadIndirect \/ StoreIndirect \/ FloatIndirect \/ Compare \/ ICmp
    \/ FloatArithmetic \/ ComplexArithmetic \/ FloatDivideByZero \/ SquareRoot
    \/ FloatMove \/ Transcendental \/ Reduce
    \/ FloatCompare \/ Convert \/ QubitConfig \/ Kernel \/ Exhausted \/ Teleport
    \/ UnknownLabel \/ Jump \/ FlagJump \/ Call \/ Underflow \/ Ret \/ Reti \/ SetIV \/ Halt
    \/ Nop \/ Ecall

Spec == Init /\ [][Next]_vars

-----------------------------------------------------------------------------
(***************************************************************************)
(* Properties.                                                             *)
(***************************************************************************)
TypeOK ==
    /\ program \in Programs
    /\ enabled \in BOOLEAN
    /\ m \in Machine
    /\ cycles \in 0 .. MaxCycles
    /\ status \in {"runs", "done", "error", "panic"}

\* Between two instructions no trap is pending: dispatch_pending_traps answers every one in
\* the turn that raised it, so the flags that RETI clears never hold a fault that nobody saw.
NoTrapPending == status \in {"runs", "done"} => m.traps = NoTraps

\* RET and RETI share one stack; whatever a program does with them, every entry of the stack
\* is the instruction behind the one that was interrupted or called, so a handler neither
\* repeats the faulting instruction nor skips the one after it.
ResumesBehind ==
    /\ Len(sites) = Len(m.stack)
    /\ \A k \in DOMAIN sites : m.stack[k] = sites[k] + 1

\* JGT and JLE, with no instruction in between that changes ZF, NF or OF since the ICMP, compare
\* the two operands as signed integers even if their difference overflows, and handlers or
\* calls in between change nothing.
SignedBranches ==
    [][compared # <<>> /\ Executes({"JGT", "JLE"}) /\ cycles' # cycles =>
         m'.pc = IF (compared[1] > compared[2]) = (Instr.op = "JGT") THEN Instr.to ELSE m.pc + 1]_vars
=============================================================================
