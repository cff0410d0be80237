------------------------------- MODULE ShotMode --------------------------------
(* run_with_shots: a program runs once, and each time it observes at the end   *)
(* of a quantum section the section is sampled Shots times: from the           *)
(* distribution observed, or, when a measurement in it decides what comes      *)
(* later, by replaying the section from a snapshot of the context.  The back   *)
(* end is not put back.                                                        *)
EXTENDS Integers, Sequences, FiniteSets, FiniteSetsExt, Functions

CONSTANTS
    Programs,   \* sequences of instructions
    QRegs,      \* the Q registers in use
    HRegs,      \* the H registers in use
    Shots,      \* --shots
    MaxCycles   \* VmConfig.max_cycles

ASSUME ShotsAssumption == Shots \in Nat \ {0}
ASSUME RegistersAssumption == IsFiniteSet(QRegs)
ASSUME ProgramsAssumption ==
    \A p \in Programs :
        /\ p \in Seq([op : {"prep", "gate", "meas", "observe", "jif", "ecall", "halt"},
                     q : QRegs, h : HRegs, mode : {"", "dist", "sample", "prob"}, to : Nat])
        /\ \A k \in DOMAIN p : p[k].op = "observe" => p[k].mode # ""

None == -1
Outcomes == {0, 1}

VARIABLES
    program,
    ctx,        \* the ExecutionContext
    states,     \* the back end's table of states
    snapshot,   \* snapshot_ctx, while in_quantum_section
    seenMeas, adaptive,
    cycles,     \* cycle_count
    phase,      \* the loop that is running, or how the run ended
    shot,       \* shot_idx
    post,       \* post_first_run
    acc,        \* the accumulators
    printed,    \* the places of the ECALLs executed, in order
    crossing,   \* history: a section began while a register was in use
    diverged    \* history: a replay ended elsewhere than the first run

section == <<snapshot, seenMeas, adaptive>>
replay == <<shot, post, acc>>
history == <<crossing, diverged>>
vars == <<program, ctx, states, section, cycles, phase, replay, printed, history>>

NoCounts == [o \in Outcomes |-> 0]
Value(kind, outs, counts) == [kind |-> kind, outs |-> outs, counts |-> counts]
Empty == Value("empty", {}, NoCounts)
Hist(counts) == Value("hist", {}, counts)
Total(counts) == counts[0] + counts[1]

NoContext == [pc |-> 0, q |-> [r \in QRegs |-> None], h |-> [i \in HRegs |-> Empty],
              r |-> 0, qf |-> FALSE, halt |-> FALSE]
NoAcc == [i \in HRegs |-> NoCounts]

Init ==
    /\ program \in Programs
    /\ ctx = [NoContext EXCEPT !.pc = 1]
    /\ states = {} /\ snapshot = NoContext /\ seenMeas = FALSE /\ adaptive = FALSE
    /\ cycles = 0 /\ phase = "main" /\ shot = 0 /\ post = NoContext /\ acc = NoAcc
    /\ printed = <<>> /\ crossing = FALSE /\ diverged = FALSE

InSection == snapshot # NoContext
Held(c) == Range(c.q) \ {None}

(* A handle that no context and no state has: they are never used again.      *)
NewHandle == Min((0..(4 * Cardinality(QRegs) + Cardinality(states)))
                     \ (states \cup Held(ctx) \cup Held(post) \cup Held(snapshot)))

------------------------------------------------------------------------------
(* execute_instruction, as far as the shots can tell: what becomes of context  *)
(* c and the table s.  An instruction on a register that is empty or whose     *)
(* state is gone is an error, and gives nothing.                               *)

Next1(c) == [c EXCEPT !.pc = @ + 1]
Usable(c, s, r) == c.q[r] \in s
(* A new state for register r, and the old one is released.                    *)
Filled(c, s, r, v) ==
    [c |-> [c EXCEPT !.pc = @ + 1, !.q = [@ EXCEPT ![r] = NewHandle], !.r = v, !.qf = TRUE],
     s |-> (s \ {c.q[r]}) \cup {NewHandle}]
Observation(c, s, i, v) ==
    [c |-> [c EXCEPT !.pc = @ + 1, !.q = [@ EXCEPT ![i.q] = None], !.h = [@ EXCEPT ![i.h] = v], !.qf = FALSE],
     s |-> s \ {c.q[i.q]}]
Seen(mode) == CASE mode = "dist" -> {Value("dist", d, NoCounts) : d \in (SUBSET Outcomes) \ {{}}}
                [] mode = "sample" -> {Value("int", {o}, NoCounts) : o \in Outcomes}
                [] mode = "prob" -> {Value("float", {}, NoCounts)}
Jumped(c, i) == [c EXCEPT !.pc = IF c.r = 1 THEN i.to ELSE @ + 1]
Executed(c, s, i) ==
    CASE i.op = "prep" -> {Filled(c, s, i.q, c.r)}
      [] i.op = "gate" /\ Usable(c, s, i.q) -> {Filled(c, s, i.q, c.r)}
      [] i.op = "meas" /\ Usable(c, s, i.q) -> {Filled(c, s, i.q, o) : o \in Outcomes}
      [] i.op = "observe" /\ Usable(c, s, i.q) -> {Observation(c, s, i, v) : v \in Seen(i.mode)}
      [] i.op = "jif" -> {[c |-> Jumped(c, i), s |-> s]}
      [] i.op = "ecall" -> {[c |-> Next1(c), s |-> s]}
      [] i.op = "halt" -> {[c |-> [c EXCEPT !.halt = TRUE], s |-> s]}
      [] OTHER -> {}

InProgram(c) == c.pc \in DOMAIN program
Instr == program[ctx.pc]
Observed(before, after) == before.qf /\ ~after.qf

------------------------------------------------------------------------------
(* Sampling                                                                   *)

(* One more outcome of every register that has a Dist or an Int.              *)
Samples(v) == IF v.kind \in {"dist", "int"} THEN v.outs ELSE {None}
Collected(a, h) ==
    {[i \in HRegs |-> IF pick[i] = None THEN a[i] ELSE [a[i] EXCEPT ![pick[i]] = @ + 1]] :
        pick \in {f \in [HRegs -> Outcomes \cup {None}] : \A i \in HRegs : f[i] \in Samples(h[i])}}

(* resample_dist; an Int counts for every shot.                               *)
CountsOf(outs) == {c \in [Outcomes -> 0..Shots] :
                      Total(c) = Shots /\ \A o \in Outcomes : c[o] > 0 => o \in outs}
Resampled(v) ==
    CASE v.kind = "dist" -> {Hist(c) : c \in CountsOf(v.outs)}
      [] v.kind = "int" -> {Hist(c) : c \in CountsOf(v.outs)}
      [] OTHER -> {v}
AllResampled(h) ==
    {f \in [HRegs -> UNION {Resampled(h[i]) : i \in HRegs}] : \A i \in HRegs : f[i] \in Resampled(h[i])}

------------------------------------------------------------------------------
(* The main loop: one instruction, with the section's bookkeeping before and  *)
(* after it.                                                                   *)
Entry == {"prep"}
Begins == ~InSection /\ ~ctx.qf /\ Instr.op \in Entry
Bookkept ==
    /\ snapshot' = IF Begins THEN ctx ELSE snapshot
    /\ seenMeas' = (IF Begins THEN FALSE ELSE seenMeas \/ (InSection /\ Instr.op = "meas"))
    /\ adaptive' = (IF Begins THEN FALSE ELSE adaptive \/ (InSection /\ seenMeas /\ Instr.op = "gate"))
    /\ crossing' = (crossing \/ (Begins /\ Held(ctx) # {}))

NoSection == snapshot' = NoContext /\ seenMeas' = FALSE /\ adaptive' = FALSE

Printing(i) == IF i.op = "ecall" THEN Append(printed, ctx.pc) ELSE printed

StepMain ==
    /\ phase = "main" /\ InProgram(ctx) /\ cycles < MaxCycles
    /\ \E e \in Executed(ctx, states, Instr) :
          LET leaves == InSection /\ Observed(ctx, e.c) /\ ~e.c.halt IN
          /\ states' = e.s
          /\ \/ /\ ~leaves
                /\ ctx' = e.c /\ phase' = IF e.c.halt THEN "flush" ELSE "main"
                /\ Bookkept
                /\ UNCHANGED replay
             \/ /\ leaves /\ adaptive
                /\ post' = e.c /\ ctx' = snapshot /\ shot' = 1 /\ phase' = "replay"
                /\ acc' \in Collected(NoAcc, e.c.h)
                /\ UNCHANGED <<section, crossing>>
             \/ /\ leaves /\ ~adaptive
                /\ \E h \in AllResampled(e.c.h) : ctx' = [e.c EXCEPT !.h = h]
                /\ NoSection
                /\ phase' = "main"
                /\ UNCHANGED <<replay, crossing>>
    /\ cycles' = cycles + 1
    /\ printed' = Printing(Instr)
    /\ UNCHANGED <<program, diverged>>

LimitMain ==
    /\ phase = "main"
    /\ ~InProgram(ctx) \/ cycles >= MaxCycles
    /\ phase' = "flush"
    /\ ctx' = [ctx EXCEPT !.halt = @ \/ InProgram(ctx)]
    /\ UNCHANGED <<program, states, section, cycles, replay, printed, history>>

(* Replays.  ECALL is skipped; nothing counts the cycles.                     *)
EnoughEarly == shot + 1 >= Shots
Enough == shot >= Shots
Replaying == phase = "replay" /\ ~Enough
RewoundKeepingRegisters == [snapshot EXCEPT !.q = post.q]
Rewound == snapshot
PrintingAgain(i) == Printing(i)
PrintingNothing(i) == printed
Finishes(before, after) == after.halt \/ Observed(before, after) \/ ~InProgram(after)

StepReplay ==
    /\ Replaying /\ InProgram(ctx)
    /\ \E e \in IF Instr.op = "ecall" THEN {[c |-> Next1(ctx), s |-> states]}
                ELSE Executed(ctx, states, Instr) :
          /\ states' = e.s
          /\ IF Finishes(ctx, e.c)
             THEN /\ acc' \in Collected(acc, e.c.h)
                  /\ shot' = shot + 1
                  /\ ctx' = Rewound
                  /\ diverged' = (diverged \/ e.c.pc # post.pc \/ ~Observed(ctx, e.c))
             ELSE /\ ctx' = e.c
                  /\ UNCHANGED <<acc, shot, diverged>>
    /\ printed' = PrintingNothing(Instr)
    /\ UNCHANGED <<program, section, cycles, phase, post, crossing>>

(* The context of the one run is put back, with the histograms.               *)
Restore ==
    /\ phase = "replay" /\ Enough
    /\ ctx' = [post EXCEPT !.h = [i \in HRegs |->
                  IF acc[i] = NoCounts THEN @[i] ELSE Hist(acc[i])]]
    /\ phase' = "main" /\ shot' = 0 /\ acc' = NoAcc /\ post' = NoContext
    /\ NoSection
    /\ UNCHANGED <<program, states, cycles, printed, history>>

(* Program-exit flush.                                                        *)
Flush ==
    /\ phase = "flush"
    /\ \E h \in AllResampled(ctx.h) : ctx' = [ctx EXCEPT !.h = h]
    /\ phase' = "done"
    /\ UNCHANGED <<program, states, section, cycles, replay, printed, history>>

(* An error of an instruction ends the run, in a replay as well.              *)
Error ==
    /\ \/ phase = "main" /\ cycles < MaxCycles
       \/ Replaying /\ Instr.op # "ecall"
    /\ InProgram(ctx)
    /\ Executed(ctx, states, Instr) = {}
    /\ phase' = IF phase = "main" THEN "failed" ELSE "replay failed"
    /\ UNCHANGED <<program, ctx, states, section, cycles, replay, printed, history>>

Next == StepMain \/ LimitMain \/ StepReplay \/ Restore \/ Flush \/ Error
Spec == Init /\ [][Next]_vars

------------------------------------------------------------------------------
(* Runs whose replays ended with the observation of the first run, and whose  *)
(* sections began with no register in use.                                    *)
Regular == ~crossing /\ ~diverged

(* "Classical code (including ECALL) executes exactly once": in a program that *)
(* does not jump back no ECALL is made twice, and each one of a program without *)
(* jumps is made, however often the sections are replayed.                     *)
Ecalls == {p \in DOMAIN program : program[p].op = "ecall"}
EcallsOnce ==
    /\ (\A p \in DOMAIN program : program[p].op = "jif" => program[p].to > p) => IsInjective(printed)
    /\ phase = "done" /\ ~ctx.halt /\ (\A p \in DOMAIN program : program[p].op # "jif") =>
          Range(printed) = Ecalls

(* The histogram of every register a section observes counts each shot once.  *)
EveryShotCounted ==
    phase = "main" /\ Regular =>
        \A i \in HRegs : ctx.h[i].kind = "hist" => Total(ctx.h[i].counts) = Shots

(* Replays take nothing from the registers that the program goes on with:     *)
(* their states are still in the back end's table.                             *)
RegistersSurvive == ~crossing /\ phase = "main" => Held(ctx) \subseteq states
=============================================================================
