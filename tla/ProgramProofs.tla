---------------------------- MODULE ProgramProofs ----------------------------
(***************************************************************************)
(* Proofs about a program, on its way to the machine and in it.            *)
(*                                                                         *)
(* Processor, for every width, program and cycle limit: the machine keeps  *)
(* its type, no trap outlives the turn that raised it, the call stack      *)
(* holds only addresses behind the places it was pushed from, and the      *)
(* branches after an ICMP are signed.                                      *)
(*                                                                         *)
(* InstructionSet: what the encoder packs the decoder unpacks.             *)
(*                                                                         *)
(* Toolchain, for every source: the binary that is loaded is the program   *)
(* that was parsed, its branches land where the source's do, a listing     *)
(* parses back, and data references become their own labels.  The          *)
(* invariant is Whole; the sections before it follow a program through     *)
(* the parser, the assembler, the image and the loader.                    *)
(***************************************************************************)
EXTENDS Processor, Toolchain, FiniteSetTheorems, WellFoundedInduction, SequenceTheorems, TLAPS

(***************************************************************************)
(* Words.                                                                  *)
(***************************************************************************)
\* Half a word is a number above 1.
LEMMA HalfType == Half \in Nat /\ Half > 1
<1>1. Half \in Int /\ Width - 1 \in 0 .. Width
  BY WidthAssumption DEF Half
<1>2. Half > Width - 1
  BY <1>1, WidthAssumption DEF Half
<1> QED BY <1>1, <1>2, WidthAssumption

\* Cutting an integer to a word makes a word.
LEMMA WrapType == ASSUME NEW x \in Int PROVE Wrap(x) \in Word
<1> DEFINE H == Half
<1>1. H \in Nat /\ H > 0
  BY HalfType
<1> HIDE DEF H
<1>2. ((x + H) % (2 * H)) - H \in -H .. H - 1
  BY <1>1
<1> QED BY <1>2 DEF Wrap, Word, H

\* A word is an integer.
LEMMA WordInt == Word \subseteq Int
BY HalfType DEF Word

\* The sign and the overflow that the difference of two words leaves tell which is greater.
LEMMA SignedComparison ==
    ASSUME NEW a \in Word, NEW b \in Word
    PROVE  /\ (Wrap(a - b) = 0) = (a = b)
           /\ a # b => ((Wrap(a - b) < 0) = (a - b # Wrap(a - b))) = (a > b)
<1> DEFINE H == Half
           x == a - b
           y == x + H
<1>1. H \in Nat /\ H > 0
  BY HalfType
<1>2. a \in -H .. H - 1 /\ b \in -H .. H - 1
  BY DEF Word
<1> HIDE DEF H
<1>3. y \in Int /\ -H < y /\ y < 3 * H /\ x \in Int /\ x < 2 * H /\ -2 * H < x
  BY <1>1, <1>2
<1>4. Wrap(x) = (y % (2 * H)) - H
  BY DEF Wrap, H
<1>5. CASE 0 <= y /\ y < 2 * H
  <2>1. y % (2 * H) = y
    BY <1>1, <1>3, <1>5
  <2>2. Wrap(x) = x
    BY <1>1, <1>3, <1>4, <2>1
  <2> QED BY <1>1, <1>2, <1>3, <2>2
<1>6. CASE y < 0
  <2>1. y % (2 * H) = y + 2 * H
    BY <1>1, <1>3, <1>6
  <2>2. Wrap(x) = x + 2 * H
    BY <1>1, <1>3, <1>4, <2>1
  <2> QED BY <1>1, <1>2, <1>3, <1>6, <2>2
<1>7. CASE y >= 2 * H
  <2>1. y % (2 * H) = y - 2 * H
    BY <1>1, <1>3, <1>7
  <2>2. Wrap(x) = x - 2 * H
    BY <1>1, <1>3, <1>4, <2>1
  <2> QED BY <1>1, <1>2, <1>3, <1>7, <2>2
<1> QED BY <1>1, <1>3, <1>5, <1>6, <1>7

(***************************************************************************)
(* The inductive invariant: besides the three invariants, the flags that   *)
(* the last ICMP set are still those of the difference of its operands.    *)
(***************************************************************************)
SameSigns(f, g) == f.zf = g.zf /\ f.nf = g.nf /\ f.of = g.of
Signs(f, a, b) ==
    /\ f.zf = (Wrap(a - b) = 0)
    /\ f.nf = (Wrap(a - b) < 0)
    /\ f.of = (a - b # Wrap(a - b))
HistoryOK ==
    /\ sites \in Seq(Nat)
    /\ compared \in {<<>>} \cup (Word \X Word)
    /\ compared # <<>> => Signs(m.flags, compared[1], compared[2])
IInv == TypeOK /\ NoTrapPending /\ ResumesBehind /\ HistoryOK

\* Dispatch does nothing when no trap is pending.
LEMMA QuietDispatch == ASSUME NEW c \in Machine, c.traps = NoTraps PROVE Dispatch(c) = c
BY DEF Dispatch, Answer, NoTraps, Traps, Machine

\* It answers a single pending trap and leaves none.
LEMMA RaisedDispatch ==
    ASSUME NEW c \in Machine, NEW t \in Traps, c.traps = [NoTraps EXCEPT ![t] = TRUE]
    PROVE  Dispatch(c) = Handle([c EXCEPT !.traps = NoTraps], t)
<1> DEFINE d == [c EXCEPT !.traps = NoTraps]
<1>1. d \in Machine /\ d.traps = NoTraps
  BY DEF Machine, NoTraps
<1>2. [c EXCEPT !.traps[t] = FALSE] = d
  BY DEF Machine, NoTraps, Traps
<1>3. Handle(d, t).traps = NoTraps
  BY <1>1 DEF Handle, Enter, Halted, Machine
<1>4. \A u \in Traps : u # t => c.traps[u] = FALSE
  BY DEF NoTraps, Traps
<1>5. c.traps[t]
  BY DEF NoTraps, Traps
<1>6. \A u \in Traps : Answer(Handle(d, t), u) = Handle(d, t)
  BY <1>3 DEF Answer, NoTraps
<1>7. \A u \in Traps : Answer(c, u) = IF u = t THEN Handle(d, t) ELSE c
  BY <1>2, <1>4, <1>5 DEF Answer
<1> HIDE DEF d
<1> DEFINE h == Handle(d, t)
<1>8. \A u \in Traps : Answer(h, u) = h
  BY <1>6
<1>9. \A u \in Traps : Answer(c, u) = IF u = t THEN h ELSE c
  BY <1>7
<1>10. t \in {"arith", "quantum", "sync"} /\ Traps = {"arith", "quantum", "sync"}
  BY DEF Traps
<1> HIDE DEF h
<1>11. Dispatch(c) = h
  <2>1. CASE t = "arith"
    BY <1>8, <1>9, <1>10, <2>1 DEF Dispatch
  <2>2. CASE t = "quantum"
    BY <1>8, <1>9, <1>10, <2>2 DEF Dispatch
  <2>3. CASE t = "sync"
    BY <1>8, <1>9, <1>10, <2>3 DEF Dispatch
  <2> QED BY <1>10, <2>1, <2>2, <2>3
<1> QED BY <1>11 DEF h, d

\* Handling a trap keeps the type, leaves the flags alone, and interrupts behind the instruction.
LEMMA HandleType ==
    ASSUME TypeOK, NEW c \in Machine, NEW t \in Traps
    PROVE  /\ Handle(c, t) \in Machine
           /\ Handle(c, t).flags = c.flags /\ Handle(c, t).traps = c.traps
           /\ Handle(c, t).stack \in {c.stack, Append(c.stack, c.pc)}
<1>1. c.isr[t] \in Nat \cup {None}
  BY DEF Machine
<1>2. Append(c.stack, c.pc) \in Seq(Nat)
  BY DEF Machine
<1>3. CASE enabled /\ c.isr[t] # None
  <2>1. Handle(c, t) = [c EXCEPT !.stack = Append(@, c.pc), !.pc = c.isr[t]]
    BY <1>3 DEF Handle, Enter
  <2> QED BY <1>1, <1>2, <1>3, <2>1 DEF Machine
<1>4. CASE ~(enabled /\ c.isr[t] # None)
  <2>1. Handle(c, t) \in {c, [c EXCEPT !.halt = TRUE]}
    BY <1>4 DEF Handle, Halted
  <2> QED BY <2>1 DEF Machine
<1> QED BY <1>3, <1>4

\* A sequence without its last element.
LEMMA WithoutLast ==
    ASSUME NEW s \in Seq(Nat), Len(s) > 0
    PROVE  /\ SubSeq(s, 1, Len(s) - 1) \in Seq(Nat)
           /\ Len(SubSeq(s, 1, Len(s) - 1)) = Len(s) - 1
<1> DEFINE n == Len(s) - 1
<1>1. n \in Nat /\ \A i \in 1 .. n : s[i] \in Nat
  OBVIOUS
<1> HIDE DEF n
<1>2. SubSeq(s, 1, n) \in Seq(Nat)
  BY <1>1, SubSeqProperties
<1>3. Len(SubSeq(s, 1, n)) = n
  BY <1>1, SubSeqProperties
<1> QED BY <1>2, <1>3 DEF n

\* What a turn may do to the call stack.
Stacked(stack) ==
    \/ stack = m.stack
    \/ stack = Append(m.stack, m.pc + 1)
    \/ m.stack # <<>> /\ stack = SubSeq(m.stack, 1, Len(m.stack) - 1)

\* The history of the call stack follows the stack.
LEMMA SitesFollow ==
    ASSUME IInv, NEW d \in Machine, Stacked(d.stack), m' = d,
           sites' = CASE Len(d.stack) > Len(m.stack) -> Append(sites, m.pc)
                      [] Len(d.stack) < Len(m.stack) -> SubSeq(sites, 1, Len(d.stack))
                      [] OTHER -> sites
    PROVE  ResumesBehind' /\ sites' \in Seq(Nat)
<1>1. /\ sites \in Seq(Nat) /\ m.stack \in Seq(Nat) /\ Len(sites) = Len(m.stack)
      /\ m.pc \in Nat /\ \A k \in 1 .. Len(sites) : m.stack[k] = sites[k] + 1
  <2>1. sites \in Seq(Nat)
    BY DEF IInv, HistoryOK
  <2>2. m.stack \in Seq(Nat) /\ m.pc \in Nat
    BY DEF IInv, TypeOK, Machine
  <2>3. Len(sites) = Len(m.stack) /\ \A k \in DOMAIN sites : m.stack[k] = sites[k] + 1
    BY DEF IInv, ResumesBehind
  <2>4. DOMAIN sites = 1 .. Len(sites)
    BY <2>1
  <2> QED BY <2>1, <2>2, <2>3, <2>4
<1>2. CASE d.stack = m.stack
  <2>1. sites' = sites
    BY <1>1, <1>2
  <2> QED BY <1>1, <1>2, <2>1 DEF ResumesBehind
<1>3. CASE d.stack = Append(m.stack, m.pc + 1)
  <2>1. sites' = Append(sites, m.pc) /\ sites' \in Seq(Nat)
    BY <1>1, <1>3
  <2>2. Len(sites') = Len(m'.stack)
    BY <1>1, <1>3, <2>1
  <2>3. ASSUME NEW k \in 1 .. Len(sites') PROVE m'.stack[k] = sites'[k] + 1
    BY <1>1, <1>3, <2>1, <2>3
  <2> QED BY <2>1, <2>2, <2>3 DEF ResumesBehind
<1>4. CASE m.stack # <<>> /\ d.stack = SubSeq(m.stack, 1, Len(m.stack) - 1)
  <2>1. Len(m.stack) > 0 /\ Len(d.stack) = Len(m.stack) - 1
    BY <1>1, <1>4
  <2>2. sites' = SubSeq(sites, 1, Len(sites) - 1)
    BY <1>1, <2>1
  <2>3. sites' \in Seq(Nat) /\ Len(sites') = Len(m'.stack)
    <3>1. sites \in Seq(Nat) /\ Len(sites) > 0
      BY <1>1, <2>1
    <3>2. sites' \in Seq(Nat) /\ Len(sites') = Len(sites) - 1
      BY <2>2, <3>1, WithoutLast
    <3> QED BY <1>1, <2>1, <3>2
  <2>4. ASSUME NEW k \in 1 .. Len(sites') PROVE m'.stack[k] = sites'[k] + 1
    BY <1>1, <1>4, <2>1, <2>2, <2>3, <2>4
  <2> QED BY <2>3, <2>4 DEF ResumesBehind
<1> QED BY <1>2, <1>3, <1>4 DEF Stacked

\* A turn after which no trap is pending.
LEMMA Turn ==
    ASSUME IInv, Running, cycles < MaxCycles, NEW c, Retire(c), NEW d \in Machine,
           d = Dispatch(c), d.traps = NoTraps, Stacked(d.stack),
           Instr.op \in Neutral => SameSigns(d.flags, m.flags)
    PROVE  IInv'
<1>1. /\ m' = d /\ cycles' = cycles + 1 /\ status' \in {"done", "runs"}
      /\ compared' = (IF Instr.op \in Neutral THEN compared ELSE <<>>)
      /\ UNCHANGED <<program, enabled>>
  BY DEF Retire
<1>2. TypeOK'
  <2>1. cycles' \in 0 .. MaxCycles
    BY <1>1, MaxCyclesAssumption DEF IInv, TypeOK
  <2> QED BY <1>1, <2>1 DEF IInv, TypeOK
<1>3. NoTrapPending'
  BY <1>1 DEF NoTrapPending
<1>4. sites' = CASE Len(d.stack) > Len(m.stack) -> Append(sites, m.pc)
                 [] Len(d.stack) < Len(m.stack) -> SubSeq(sites, 1, Len(d.stack))
                 [] OTHER -> sites
  BY DEF Retire
<1>5. ResumesBehind' /\ sites' \in Seq(Nat)
  BY <1>1, <1>4, SitesFollow
<1>6. compared' \in {<<>>} \cup (Word \X Word)
  BY <1>1 DEF IInv, HistoryOK
<1>7. compared' # <<>> => Signs(m'.flags, compared'[1], compared'[2])
  BY <1>1 DEF IInv, HistoryOK, Signs, SameSigns
<1> QED BY <1>2, <1>3, <1>5, <1>6, <1>7 DEF IInv, HistoryOK

\* A turn in which no trap is raised.
LEMMA QuietTurn ==
    ASSUME IInv, Running, cycles < MaxCycles, NEW c \in Machine, Retire(c), c.traps = NoTraps,
           Stacked(c.stack), Instr.op \in Neutral => SameSigns(c.flags, m.flags)
    PROVE  IInv'
BY QuietDispatch, Turn

\* A turn in which one is.
LEMMA RaisedTurn ==
    ASSUME IInv, Running, cycles < MaxCycles, NEW c \in Machine, NEW t \in Traps, Retire(c),
           c.traps = [NoTraps EXCEPT ![t] = TRUE], c.pc = m.pc + 1, c.stack = m.stack,
           Instr.op \in Neutral => SameSigns(c.flags, m.flags)
    PROVE  IInv'
<1> DEFINE e == [c EXCEPT !.traps = NoTraps]
           d == Handle(e, t)
<1>1. /\ e \in Machine /\ e.traps = NoTraps /\ e.stack = m.stack /\ e.pc = m.pc + 1
      /\ e.flags = c.flags
  BY DEF Machine, NoTraps
<1>2. Dispatch(c) = d
  BY RaisedDispatch
<1> HIDE DEF e
<1>3. /\ d \in Machine /\ d.flags = c.flags /\ d.traps = NoTraps
      /\ d.stack \in {m.stack, Append(m.stack, m.pc + 1)}
  BY <1>1, HandleType DEF IInv
<1> HIDE DEF d
<1>4. Stacked(d.stack)
  BY <1>3 DEF Stacked
<1> QED BY <1>2, <1>3, <1>4, Turn

(***************************************************************************)
(* One instruction.                                                        *)
(***************************************************************************)
\* What an instruction that is executed may rely on.
LEMMA Executing ==
    ASSUME IInv, NEW ops, Executes(ops)
    PROVE  /\ m \in Machine /\ m.traps = NoTraps /\ Running /\ cycles < MaxCycles
           /\ Instr.op \in ops /\ WellFormed(Instr)
           /\ Instr.op \in ReadsA => A \in Word
           /\ Instr.op \in ReadsB => B \in Word
           /\ Instr.op \in Branches => Instr.to \in Nat \cup {None}
<1>1. m \in Machine /\ m.traps = NoTraps /\ Running /\ cycles < MaxCycles /\ Instr.op \in ops
  BY DEF IInv, TypeOK, NoTrapPending, Executes, Running
<1>2. WellFormed(Instr)
  BY <1>1, ProgramsAssumption DEF IInv, TypeOK, Running, Instr
<1>3. Instr.op \in ReadsA => A \in Word
  BY <1>1, <1>2 DEF WellFormed, A, Machine
<1>4. Instr.op \in ReadsB => B \in Word
  BY <1>1, <1>2 DEF WellFormed, B, Machine
<1> QED BY <1>1, <1>2, <1>3, <1>4 DEF WellFormed

\* An instruction that raises nothing and leaves the stack alone.
LEMMA PlainTurn ==
    ASSUME IInv, NEW ops, Executes(ops), NEW c \in Machine, Retire(c), c.traps = m.traps,
           c.stack = m.stack, Instr.op \in Neutral => SameSigns(c.flags, m.flags)
    PROVE  IInv'
BY Executing, QuietTurn DEF Stacked

\* An instruction that raises a trap.
LEMMA FaultingTurn ==
    ASSUME IInv, NEW ops, Executes(ops), NEW c \in Machine, NEW t \in Traps, Retire(c),
           c.traps = [m.traps EXCEPT ![t] = TRUE], c.pc = m.pc + 1, c.stack = m.stack,
           Instr.op \in Neutral => SameSigns(c.flags, m.flags)
    PROVE  IInv'
BY Executing, RaisedTurn

\* The loop is left by an error.
LEMMA Stopping ==
    ASSUME IInv, status = "runs", NEW how \in {"done", "error", "panic"}, Stop(how)
    PROVE  IInv'
BY DEF IInv, TypeOK, NoTrapPending, ResumesBehind, HistoryOK, Stop

\* What the instructions that write a register, or nothing, leave.
LEMMA PastType ==
    ASSUME NEW c \in Machine
    PROVE  /\ Past(c) \in Machine /\ Past(c).pc = c.pc + 1 /\ Past(c).flags = c.flags
           /\ Past(c).traps = c.traps /\ Past(c).stack = c.stack /\ Past(c).regs = c.regs
BY DEF Past, Machine

LEMMA FlaggedType == ASSUME NEW f \in Flag, NEW x PROVE Flagged(f, x) \in Flag
<1>1. \A z, n, o \in BOOLEAN : [f EXCEPT !.zf = z, !.nf = n, !.of = o] \in Flag
  BY DEF Flag
<1>2. (Wrap(x) = 0) \in BOOLEAN /\ (Wrap(x) < 0) \in BOOLEAN /\ (x # Wrap(x)) \in BOOLEAN
  OBVIOUS
<1> QED BY <1>1, <1>2 DEF Flagged

\* x is put into register d, with the flags f.
Put(c, d, x, f) == [Past(c) EXCEPT !.regs[d] = x, !.flags = f]
LEMMA PutType ==
    ASSUME NEW c \in Machine, NEW d, NEW x \in Word, NEW f \in Flag
    PROVE  /\ Put(c, d, x, f) \in Machine /\ Put(c, d, x, f).pc = c.pc + 1
           /\ Put(c, d, x, f).traps = c.traps /\ Put(c, d, x, f).stack = c.stack
<1>1. Past(c) \in Machine
  BY PastType
<1>2. [Past(c).regs EXCEPT ![d] = x] \in [Regs -> Word]
  BY <1>1 DEF Machine
<1> QED BY <1>1, <1>2, PastType DEF Put, Machine

LEMMA FlagsType ==
    ASSUME NEW c \in Machine, NEW f \in Flag
    PROVE  LET e == [Past(c) EXCEPT !.flags = f] IN
           /\ e \in Machine /\ e.traps = c.traps /\ e.stack = c.stack /\ e.flags = f
BY PastType DEF Machine

LEMMA WrittenType ==
    ASSUME NEW c \in Machine, NEW d, NEW x \in Int
    PROVE  /\ Written(c, d, x) \in Machine
           /\ Written(c, d, x).traps = c.traps /\ Written(c, d, x).stack = c.stack
<1>1. Past(c) \in Machine /\ Past(c).flags = c.flags /\ Flagged(c.flags, x) \in Flag
  BY PastType, FlaggedType DEF Machine
<1>2. Wrap(x) \in Word
  BY WrapType
<1>3. Written(c, d, x) = Put(c, d, Wrap(x), Flagged(c.flags, x))
  BY <1>1 DEF Written, Put, Machine
<1> QED BY <1>1, <1>2, <1>3, PutType

LEMMA LoadedType ==
    ASSUME NEW c \in Machine, NEW d, NEW x \in Word
    PROVE  /\ Loaded(c, d, x) \in Machine
           /\ Loaded(c, d, x).traps = c.traps /\ Loaded(c, d, x).stack = c.stack
<1>1. Past(c) \in Machine /\ Past(c).flags = c.flags /\ [c.flags EXCEPT !.zf = x = 0] \in Flag
  BY PastType DEF Machine, Flag
<1>2. Loaded(c, d, x) = Put(c, d, x, [c.flags EXCEPT !.zf = x = 0])
  BY <1>1 DEF Loaded, Put, Machine
<1> QED BY <1>1, <1>2, PutType

\* An instruction that writes the word x cut from an integer.
LEMMA WrittenTurn ==
    ASSUME IInv, NEW ops, Executes(ops), NEW d, NEW x \in Int, Retire(Written(m, d, x)),
           ops \cap Neutral = {}
    PROVE  IInv'
<1>1. m \in Machine /\ Instr.op \notin Neutral
  BY Executing
<1> QED BY <1>1, WrittenType, PlainTurn

\* An instruction that leaves flags of its own.
LEMMA FlagsTurn ==
    ASSUME IInv, NEW ops, Executes(ops), NEW f \in Flag, Retire([Past(m) EXCEPT !.flags = f]),
           ops \cap Neutral = {}
    PROVE  IInv'
<1>1. m \in Machine /\ Instr.op \notin Neutral
  BY Executing
<1> QED BY <1>1, FlagsType, PlainTurn

\* An instruction that does nothing that the model keeps.
LEMMA PastTurn ==
    ASSUME IInv, NEW ops, Executes(ops), Retire(Past(m))
    PROVE  IInv'
<1>1. m \in Machine
  BY Executing
<1>2. SameSigns(Past(m).flags, m.flags)
  BY <1>1, PastType DEF SameSigns
<1> QED BY <1>1, <1>2, PastType, PlainTurn

\* An instruction that puts a word and flags.
LEMMA PutTurn ==
    ASSUME IInv, NEW ops, Executes(ops), NEW d, NEW x \in Word, NEW f \in Flag,
           Retire(Put(m, d, x, f)), ops \cap Neutral = {}
    PROVE  IInv'
<1>1. m \in Machine /\ Instr.op \notin Neutral
  BY Executing
<1> QED BY <1>1, PutType, PlainTurn

(***************************************************************************)
(* Every instruction keeps the invariant.                                  *)
(***************************************************************************)
LEMMA ArithmeticKeeps == ASSUME IInv, Arithmetic \/ Increment PROVE IInv'
<1>1. \A ops : Executes(ops) /\ ops \subseteq {"IADD", "ISUB", "IMUL"} => A \in Int /\ B \in Int
  <2> SUFFICES ASSUME NEW ops, Executes(ops), ops \subseteq {"IADD", "ISUB", "IMUL"}
               PROVE  A \in Int /\ B \in Int
    OBVIOUS
  <2>1. Instr.op \in ReadsA /\ Instr.op \in ReadsB
    BY Executing DEF ReadsA, ReadsB
  <2> QED BY <2>1, Executing, WordInt
<1>2. CASE Executes({"IADD"}) /\ Retire(Written(m, Instr.d, A + B))
  BY <1>1, <1>2, WrittenTurn DEF Neutral
<1>3. CASE Executes({"ISUB"}) /\ Retire(Written(m, Instr.d, A - B))
  BY <1>1, <1>3, WrittenTurn DEF Neutral
<1>4. CASE Executes({"IMUL"}) /\ Retire(Written(m, Instr.d, A * B))
  BY <1>1, <1>4, WrittenTurn DEF Neutral
<1>5. Executes({"IINC"}) \/ Executes({"IDEC"}) => A \in Int
  BY Executing, WordInt DEF ReadsA
<1>6. CASE Executes({"IINC"}) /\ Retire(Written(m, Instr.d, A + 1))
  BY <1>5, <1>6, WrittenTurn DEF Neutral
<1>7. CASE Executes({"IDEC"}) /\ Retire(Written(m, Instr.d, A - 1))
  BY <1>5, <1>7, WrittenTurn DEF Neutral
<1> QED BY <1>2, <1>3, <1>4, <1>6, <1>7 DEF Arithmetic, Increment

\* Truncating division of integers gives integers.
LEMMA DivisionType ==
    ASSUME NEW a \in Int, NEW b \in Int, b # 0
    PROVE  Quotient(a, b) \in Int /\ Remainder(a, b) \in Int
<1>1. Abs(a) \in Nat /\ Abs(b) \in Nat /\ Abs(b) > 0
  BY DEF Abs
<1>2. Abs(a) \div Abs(b) \in Int
  BY <1>1
<1>3. Quotient(a, b) \in Int
  BY <1>2 DEF Quotient
<1> QED BY <1>3 DEF Remainder

LEMMA DivideKeeps == ASSUME IInv, DivideByZero \/ DivideOverflows \/ Divide PROVE IInv'
<1>1. CASE DivideByZero
  <2> DEFINE c == [Raised(m, "arith") EXCEPT !.regs[Instr.d] = 0]
  <2>1. Executes({"IDIV", "IMOD"}) /\ Retire(c) /\ m \in Machine /\ Instr.op \notin Neutral
    BY <1>1, Executing DEF DivideByZero, Neutral
  <2>2. 0 \in Word
    BY HalfType DEF Word
  <2>3. Past(m) \in Machine /\ Past(m).pc = m.pc + 1 /\ Past(m).stack = m.stack /\ Past(m).traps = m.traps
    BY <2>1, PastType
  <2>4. /\ c \in Machine /\ c.traps = [m.traps EXCEPT !["arith"] = TRUE]
        /\ c.pc = m.pc + 1 /\ c.stack = m.stack
    BY <2>2, <2>3 DEF Raised, Machine
  <2> HIDE DEF c
  <2> QED BY <2>1, <2>4, FaultingTurn DEF Traps
<1>2. CASE DivideOverflows
  BY <1>2, Stopping DEF DivideOverflows, Executes, Running
<1>3. CASE Divide
  <2>1. Executes({"IDIV", "IMOD"}) /\ B # 0
    BY <1>3 DEF Divide
  <2>2. A \in Int /\ B \in Int
    BY <2>1, Executing, WordInt DEF ReadsA, ReadsB
  <2> DEFINE x == IF Instr.op = "IDIV" THEN Quotient(A, B) ELSE Remainder(A, B)
  <2>3. x \in Int
    BY <2>1, <2>2, DivisionType
  <2>4. Retire(Written(m, Instr.d, x))
    BY <1>3 DEF Divide
  <2> HIDE DEF x
  <2> QED BY <2>1, <2>3, <2>4, WrittenTurn DEF Neutral
<1> QED BY <1>1, <1>2, <1>3

LEMMA ShiftKeeps == ASSUME IInv, Shift PROVE IInv'
<1> DEFINE k == IF B < Width THEN B ELSE Width - 1
<1>1. Executes({"ISHL"}) \/ Executes({"ISHR"})
  BY DEF Shift
<1>2. A \in Int /\ B \in Nat
  BY <1>1, Executing, WordInt DEF ReadsA, WellFormed, B
<1>3. k \in 0 .. Width
  BY <1>2, WidthAssumption
<1> HIDE DEF k
<1>4. 2^k \in Int /\ 2^k > 0
  BY <1>3, WidthAssumption
<1>5. Wrap(A * 2^k) \in Int /\ A \div 2^k \in Int
  <2>1. \A a, q \in Int : q > 0 => a * q \in Int /\ a \div q \in Int
    OBVIOUS
  <2>2. A * 2^k \in Int /\ A \div 2^k \in Int
    BY <1>2, <1>4, <2>1
  <2> QED BY <2>2, WrapType, WordInt
<1>6. \/ Executes({"ISHL"}) /\ Retire(Written(m, Instr.d, Wrap(A * 2^k)))
      \/ Executes({"ISHR"}) /\ Retire(Written(m, Instr.d, A \div 2^k))
  BY DEF Shift, k
<1> QED BY <1>5, <1>6, WrittenTurn DEF Neutral

LEMMA BitwiseKeeps == ASSUME IInv, Bitwise PROVE IInv'
BY WrittenTurn, WordInt DEF Bitwise, Neutral

LEMMA LoadsKeep == ASSUME IInv, LoadImmediate \/ BadAddress \/ LoadIndirect \/ StoreIndirect PROVE IInv'
<1>1. ASSUME NEW ops, Executes(ops), NEW d, NEW x \in Word, Retire(Loaded(m, d, x)), ops \cap Neutral = {}
      PROVE  IInv'
  <2>1. m \in Machine /\ Instr.op \notin Neutral
    BY <1>1, Executing
  <2> QED BY <1>1, <2>1, LoadedType, PlainTurn
<1>2. CASE LoadImmediate
  <2>1. B \in Word
    BY <1>2, Executing DEF LoadImmediate, ReadsB
  <2> QED BY <1>1, <1>2, <2>1 DEF LoadImmediate, Neutral
<1>3. CASE BadAddress
  BY <1>3, Stopping DEF BadAddress, Executes, Running
<1>4. CASE LoadIndirect
  BY <1>1, <1>4 DEF LoadIndirect, Neutral
<1>5. CASE StoreIndirect
  BY <1>5, PastTurn DEF StoreIndirect
<1> QED BY <1>2, <1>3, <1>4, <1>5

LEMMA FloatsKeep ==
    ASSUME IInv, \/ FloatIndirect \/ FloatMove \/ FloatArithmetic \/ ComplexArithmetic
                 \/ FloatDivideByZero \/ SquareRoot \/ Transcendental
    PROVE  IInv'
<1>1. FloatFlags(m.flags) \subseteq Flag /\ ComplexFlags(m.flags) \subseteq Flag
  BY DEF FloatFlags, ComplexFlags
<1>2. CASE FloatIndirect
  <2>1. CASE Executes({"FLDX"}) /\ \E z \in BOOLEAN : Retire([Past(m) EXCEPT !.flags.zf = z])
    <3>1. PICK z \in BOOLEAN : Retire([Past(m) EXCEPT !.flags.zf = z])
      BY <2>1
    <3>2. m \in Machine
      BY <2>1, Executing
    <3>3. [m.flags EXCEPT !.zf = z] \in Flag
      BY <3>2 DEF Machine, Flag
    <3>4. [Past(m) EXCEPT !.flags.zf = z] = [Past(m) EXCEPT !.flags = [m.flags EXCEPT !.zf = z]]
      BY <3>2, PastType DEF Machine
    <3> QED BY <2>1, <3>1, <3>3, <3>4, FlagsTurn DEF Neutral
  <2>2. CASE Executes({"FSTRX"}) /\ Retire(Past(m))
    BY <2>2, PastTurn
  <2> QED BY <1>2, <2>1, <2>2 DEF FloatIndirect
<1>3. CASE FloatMove
  BY <1>3, PastTurn DEF FloatMove
<1>4. CASE FloatArithmetic
  BY <1>1, <1>4, FlagsTurn DEF FloatArithmetic, Neutral
<1>5. CASE ComplexArithmetic
  BY <1>1, <1>5, FlagsTurn DEF ComplexArithmetic, Neutral
<1>6. CASE FloatDivideByZero
  BY <1>6, Stopping DEF FloatDivideByZero, Executes, Running
<1>7. CASE SquareRoot
  <2>1. Executes({"FSQRT"})
    BY <1>7 DEF SquareRoot
  <2>2. CASE Retire(Raised(m, "arith"))
    <3>1. m \in Machine /\ Instr.op \notin Neutral
      BY <2>1, Executing DEF Neutral
    <3>2. /\ Raised(m, "arith") \in Machine /\ Raised(m, "arith").pc = m.pc + 1
          /\ Raised(m, "arith").traps = [m.traps EXCEPT !["arith"] = TRUE]
          /\ Raised(m, "arith").stack = m.stack
      BY <3>1, PastType DEF Raised, Machine
    <3> QED BY <2>1, <2>2, <3>1, <3>2, FaultingTurn DEF Traps
  <2>3. CASE \E f \in ComplexFlags(m.flags) : Retire([Past(m) EXCEPT !.flags = f])
    BY <1>1, <2>1, <2>3, FlagsTurn DEF Neutral
  <2> QED BY <1>7, <2>2, <2>3 DEF SquareRoot
<1>8. CASE Transcendental
  BY <1>1, <1>8, FlagsTurn DEF Transcendental, Neutral
<1> QED BY <1>2, <1>3, <1>4, <1>5, <1>6, <1>7, <1>8

\* 0 and 1 are words: a word has two bits at least.
LEMMA BitsAreWords == 0 \in Word /\ 1 \in Word
BY HalfType DEF Word

LEMMA CompareKeeps == ASSUME IInv, Compare PROVE IInv'
<1> DEFINE holds == \/ Instr.op = "IEQ" /\ A = B
                    \/ Instr.op = "ILT" /\ A < B
                    \/ Instr.op = "IGT" /\ A > B
           x == IF holds THEN 1 ELSE 0
           f == [m.flags EXCEPT !.pf = holds, !.zf = A = B, !.nf = A < B]
<1>1. Executes({"IEQ", "ILT", "IGT"}) /\ m \in Machine
  BY Executing DEF Compare
<1>2. \A p, z, n \in BOOLEAN : [m.flags EXCEPT !.pf = p, !.zf = z, !.nf = n] \in Flag
  BY <1>1 DEF Machine, Flag
<1>3. holds \in BOOLEAN /\ (A = B) \in BOOLEAN /\ (A < B) \in BOOLEAN
  OBVIOUS
<1>4. x \in Word
  BY BitsAreWords
<1>5. f \in Flag
  BY <1>2, <1>3
<1>6. [Past(m) EXCEPT !.regs[Instr.d] = x,
          !.flags = [@ EXCEPT !.pf = holds, !.zf = A = B, !.nf = A < B]] = Put(m, Instr.d, x, f)
  BY <1>1, PastType DEF Put, Machine
<1>7. Retire(Put(m, Instr.d, x, f))
  BY <1>6 DEF Compare
<1> HIDE DEF holds, x, f
<1> QED BY <1>1, <1>4, <1>5, <1>7, PutTurn DEF Neutral

\* ICMP leaves the signs of the difference of its operands.
LEMMA ICmpKeeps == ASSUME IInv, ICmp PROVE IInv'
<1>1. Executes({"ICMP"}) /\ m \in Machine /\ m.traps = NoTraps
  BY Executing DEF ICmp
<1>2. A \in Word /\ B \in Word
  BY <1>1, Executing DEF ReadsA, ReadsB
<1> DEFINE f == Flagged(m.flags, A - B)
<1>3. f \in Flag /\ Signs(f, A, B)
  BY <1>1, FlaggedType DEF Machine, Flagged, Signs, Flag
<1>4. m' = [Past(m) EXCEPT !.flags = f]
  BY <1>1, PastType DEF ICmp, Machine
<1> HIDE DEF f
<1>5. /\ m' \in Machine /\ m'.traps = NoTraps /\ m'.stack = m.stack /\ m'.flags = f
  BY <1>1, <1>3, <1>4, FlagsType
<1>6. /\ cycles' = cycles + 1 /\ compared' = <<A, B>>
      /\ UNCHANGED <<program, enabled, status, sites>> /\ cycles < MaxCycles
  BY <1>1 DEF ICmp, Executes
<1>7. TypeOK'
  BY <1>5, <1>6, MaxCyclesAssumption DEF IInv, TypeOK
<1>8. NoTrapPending' /\ ResumesBehind'
  BY <1>5, <1>6 DEF IInv, NoTrapPending, ResumesBehind
<1>9. compared' \in Word \X Word /\ compared'[1] = A /\ compared'[2] = B
  BY <1>2, <1>6
<1>10. HistoryOK'
  BY <1>3, <1>5, <1>6, <1>9 DEF IInv, HistoryOK
<1> QED BY <1>7, <1>8, <1>10 DEF IInv

LEMMA FloatCompareKeeps == ASSUME IInv, FloatCompare PROVE IInv'
<1>1. PICK f \in Flag :
         Retire([Past(m) EXCEPT !.regs[Instr.d] = IF f.pf THEN 1 ELSE 0, !.flags = f])
  BY DEF FloatCompare
<1> DEFINE x == IF f.pf THEN 1 ELSE 0
<1>2. x \in Word /\ Executes({"FEQ"})
  BY BitsAreWords DEF FloatCompare
<1>3. Retire(Put(m, Instr.d, x, f))
  BY <1>1 DEF Put
<1> HIDE DEF x
<1> QED BY <1>2, <1>3, PutTurn DEF Neutral

LEMMA ReduceKeeps == ASSUME IInv, Reduce PROVE IInv'
<1>1. Executes({"HREDUCE"}) /\ m \in Machine
  BY Executing DEF Reduce
<1>2. CASE Stop("error")
  BY <1>1, <1>2, Stopping DEF Executes, Running
<1>3. ASSUME NEW x \in Word,
             Retire([Past(m) EXCEPT !.regs[Instr.d] = x, !.flags = [@ EXCEPT !.zf = x = 0, !.nf = x < 0]])
      PROVE  IInv'
  <2> DEFINE f == [m.flags EXCEPT !.zf = x = 0, !.nf = x < 0]
  <2>1. \A z, n \in BOOLEAN : [m.flags EXCEPT !.zf = z, !.nf = n] \in Flag
    BY <1>1 DEF Machine, Flag
  <2>2. (x = 0) \in BOOLEAN /\ (x < 0) \in BOOLEAN
    OBVIOUS
  <2>3. f \in Flag
    BY <2>1, <2>2
  <2>4. Retire(Put(m, Instr.d, x, f))
    <3>1. Past(m).flags = m.flags
      BY <1>1, PastType
    <3>2. [Past(m) EXCEPT !.regs[Instr.d] = x, !.flags = [@ EXCEPT !.zf = x = 0, !.nf = x < 0]]
             = Put(m, Instr.d, x, f)
      BY <1>1, <3>1, PastType DEF Put, Machine
    <3> QED BY <1>3, <3>2
  <2> HIDE DEF f
  <2> QED BY <1>1, <2>3, <2>4, PutTurn DEF Neutral
<1>4. ASSUME NEW z \in BOOLEAN, Retire([Past(m) EXCEPT !.flags.zf = z])
      PROVE  IInv'
  <2>1. [m.flags EXCEPT !.zf = z] \in Flag
    BY <1>1 DEF Machine, Flag
  <2>2. [Past(m) EXCEPT !.flags.zf = z] = [Past(m) EXCEPT !.flags = [m.flags EXCEPT !.zf = z]]
    BY <1>1, PastType DEF Machine
  <2> QED BY <1>1, <1>4, <2>1, <2>2, FlagsTurn DEF Neutral
<1>5. ASSUME NEW f \in FloatFlags(m.flags),
             Retire([Past(m) EXCEPT !.flags = [f EXCEPT !.of = m.flags.of]])
      PROVE  IInv'
  <2>1. [f EXCEPT !.of = m.flags.of] \in Flag
    BY <1>1 DEF FloatFlags, Flag, Machine
  <2> QED BY <1>1, <1>5, <2>1, FlagsTurn DEF Neutral
<1> QED BY <1>2, <1>3, <1>4, <1>5 DEF Reduce

LEMMA ConvertKeeps == ASSUME IInv, Convert PROVE IInv'
<1>1. m \in Machine
  BY Executing DEF Convert
<1>2. CASE Executes({"CVTFI"}) /\ \E x \in Word, o \in BOOLEAN :
             Retire([Loaded(m, Instr.d, x) EXCEPT !.flags.of = o])
  <2>1. PICK x \in Word, o \in BOOLEAN : Retire([Loaded(m, Instr.d, x) EXCEPT !.flags.of = o])
    BY <1>2
  <2> DEFINE f == [m.flags EXCEPT !.zf = x = 0, !.of = o]
  <2>2. \A z \in BOOLEAN : [m.flags EXCEPT !.zf = z, !.of = o] \in Flag
    BY <1>1 DEF Machine, Flag
  <2>3. f \in Flag
    BY <2>2
  <2>4. [Loaded(m, Instr.d, x) EXCEPT !.flags.of = o] = Put(m, Instr.d, x, f)
    BY <1>1, PastType DEF Loaded, Put, Machine
  <2> HIDE DEF f
  <2> QED BY <1>2, <2>1, <2>3, <2>4, PutTurn DEF Neutral
<1>3. CASE Executes({"FLDI"}) /\ \E z \in BOOLEAN : Retire([Past(m) EXCEPT !.flags.zf = z])
  <2>1. PICK z \in BOOLEAN : Retire([Past(m) EXCEPT !.flags.zf = z])
    BY <1>3
  <2>2. [m.flags EXCEPT !.zf = z] \in Flag
    BY <1>1 DEF Machine, Flag
  <2>3. [Past(m) EXCEPT !.flags.zf = z] = [Past(m) EXCEPT !.flags = [m.flags EXCEPT !.zf = z]]
    BY <1>1, PastType DEF Machine
  <2> QED BY <1>3, <2>1, <2>2, <2>3, FlagsTurn DEF Neutral
<1>4. CASE Executes({"CVTIF"}) /\ \E z, o \in BOOLEAN :
             Retire([Past(m) EXCEPT !.flags = [@ EXCEPT !.zf = z, !.of = o]])
  <2>1. PICK z, o \in BOOLEAN : Retire([Past(m) EXCEPT !.flags = [@ EXCEPT !.zf = z, !.of = o]])
    BY <1>4
  <2>2. [m.flags EXCEPT !.zf = z, !.of = o] \in Flag
    BY <1>1 DEF Machine, Flag
  <2>3. [Past(m) EXCEPT !.flags = [@ EXCEPT !.zf = z, !.of = o]]
           = [Past(m) EXCEPT !.flags = [m.flags EXCEPT !.zf = z, !.of = o]]
    BY <1>1, PastType DEF Machine
  <2> QED BY <1>4, <2>1, <2>2, <2>3, FlagsTurn DEF Neutral
<1> QED BY <1>2, <1>3, <1>4 DEF Convert

LEMMA QubitConfigKeeps == ASSUME IInv, QubitConfig PROVE IInv'
<1>1. Executes({"IQCFG"}) /\ m \in Machine /\ Instr.op \notin Neutral
  BY Executing DEF QubitConfig, Neutral
<1>2. CASE Retire([Raised(m, "arith") EXCEPT !.regs[Instr.d] = 0])
  <2> DEFINE c == [Raised(m, "arith") EXCEPT !.regs[Instr.d] = 0]
  <2>1. /\ c \in Machine /\ c.traps = [m.traps EXCEPT !["arith"] = TRUE]
        /\ c.pc = m.pc + 1 /\ c.stack = m.stack
    BY <1>1, PastType, BitsAreWords DEF Raised, Machine
  <2>2. Retire(c)
    BY <1>2
  <2> HIDE DEF c
  <2> QED BY <1>1, <2>1, <2>2, FaultingTurn DEF Traps
<1>3. CASE Retire([Past(m) EXCEPT !.regs[Instr.d] = 1,
                      !.flags = [@ EXCEPT !.zf = FALSE, !.nf = FALSE]])
  <2> DEFINE f == [m.flags EXCEPT !.zf = FALSE, !.nf = FALSE]
  <2>1. f \in Flag
    BY <1>1 DEF Machine, Flag
  <2>2. [Past(m) EXCEPT !.regs[Instr.d] = 1, !.flags = [@ EXCEPT !.zf = FALSE, !.nf = FALSE]]
           = Put(m, Instr.d, 1, f)
    BY <1>1, PastType DEF Put, Machine
  <2>3. Retire(Put(m, Instr.d, 1, f))
    BY <1>3, <2>2
  <2> HIDE DEF f
  <2> QED BY <1>1, <2>1, <2>3, BitsAreWords, PutTurn DEF Neutral
<1> QED BY <1>2, <1>3 DEF QubitConfig

LEMMA QuantumKeeps == ASSUME IInv, Kernel \/ Exhausted \/ Teleport PROVE IInv'
<1>1. CASE Kernel
  <2>1. Executes({"QKERNEL"}) /\ m \in Machine
    BY <1>1, Executing DEF Kernel
  <2>2. CASE Retire(Past(m))
    BY <2>1, <2>2, PastTurn
  <2>3. CASE Retire(Raised(m, "quantum"))
    <3>1. /\ Raised(m, "quantum") \in Machine /\ Raised(m, "quantum").pc = m.pc + 1
          /\ Raised(m, "quantum").traps = [m.traps EXCEPT !["quantum"] = TRUE]
          /\ Raised(m, "quantum").stack = m.stack /\ Raised(m, "quantum").flags = m.flags
      BY <2>1, PastType DEF Raised, Machine
    <3>2. SameSigns(Raised(m, "quantum").flags, m.flags)
      BY <3>1 DEF SameSigns
    <3> QED BY <2>1, <2>3, <3>1, <3>2, FaultingTurn DEF Traps
  <2> QED BY <1>1, <2>2, <2>3 DEF Kernel
<1>2. CASE Exhausted
  <2>1. m \in Machine
    BY <1>2, Executing DEF Exhausted
  <2>2. m' \in Machine /\ m'.stack = m.stack /\ m'.flags = m.flags
    BY <1>2, <2>1 DEF Exhausted, Machine
  <2> QED BY <1>2, <2>2 DEF Exhausted, IInv, TypeOK, NoTrapPending, ResumesBehind, HistoryOK
<1>3. CASE Teleport
  BY <1>3, PastTurn DEF Teleport
<1> QED BY <1>1, <1>2, <1>3

\* The context as it is, but for the program counter.
LEMMA GotoType ==
    ASSUME NEW c \in Machine, Instr.to \in Nat
    PROVE  /\ Goto(c) \in Machine /\ Goto(c).flags = c.flags
           /\ Goto(c).traps = c.traps /\ Goto(c).stack = c.stack
BY DEF Goto, Machine

\* A branch that is executed has somewhere to go.
LEMMA Branching ==
    ASSUME IInv, NEW ops, Labelled(ops), ops \subseteq Branches
    PROVE  Executes(ops) /\ Instr.to \in Nat /\ m \in Machine
<1>1. Executes(ops) /\ Instr.to # None
  BY DEF Labelled
<1> QED BY <1>1, Executing

\* A branch whose label is unknown stops the program, with the context still in its type.
LEMMA UnknownLabelKeeps == ASSUME IInv, UnknownLabel PROVE IInv'
<1>1. m \in Machine /\ Running
  BY Executing DEF UnknownLabel
<1>2. [m.flags EXCEPT !.pf = TRUE] \in Flag /\ SameSigns([m.flags EXCEPT !.pf = TRUE], m.flags)
  BY <1>1 DEF Machine, Flag, SameSigns
<1>3. /\ m' \in Machine /\ SameSigns(m'.flags, m.flags)
      /\ m'.stack = IF Instr.op = "CALL" THEN Append(m.stack, m.pc + 1) ELSE m.stack
  <2>1. CASE Instr.op = "CALL"
    <3>1. m' = [m EXCEPT !.stack = Append(m.stack, m.pc + 1)]
      BY <2>1 DEF UnknownLabel, OnFlags
    <3>2. Append(m.stack, m.pc + 1) \in Seq(Nat)
      BY <1>1 DEF Machine
    <3>3. m' \in Machine /\ m'.flags = m.flags /\ m'.stack = Append(m.stack, m.pc + 1)
      BY <1>1, <3>1, <3>2 DEF Machine
    <3> QED BY <2>1, <3>3 DEF SameSigns
  <2>2. CASE Instr.op \in OnFlags
    <3>1. m' = [m EXCEPT !.flags = [m.flags EXCEPT !.pf = TRUE]] /\ Instr.op # "CALL"
      BY <2>2 DEF UnknownLabel, OnFlags
    <3>2. m' \in Machine /\ m'.flags = [m.flags EXCEPT !.pf = TRUE] /\ m'.stack = m.stack
      BY <1>1, <1>2, <3>1 DEF Machine
    <3> QED BY <1>2, <3>1, <3>2
  <2>3. CASE Instr.op # "CALL" /\ Instr.op \notin OnFlags
    <3>1. m' = m
      BY <2>3 DEF UnknownLabel
    <3> QED BY <1>1, <2>3, <3>1 DEF SameSigns
  <2> QED BY <2>1, <2>2, <2>3
<1>4. sites' = CASE Len(m'.stack) > Len(m.stack) -> Append(sites, m.pc)
                 [] Len(m'.stack) < Len(m.stack) -> SubSeq(sites, 1, Len(m'.stack))
                 [] OTHER -> sites
  <2>1. m.stack \in Seq(Nat)
    BY <1>1 DEF Machine
  <2>2. Len(Append(m.stack, m.pc + 1)) = Len(m.stack) + 1 /\ Len(m.stack) \in Nat
    BY <2>1
  <2>3. sites' = IF Instr.op = "CALL" THEN Append(sites, m.pc) ELSE sites
    BY DEF UnknownLabel
  <2> QED BY <1>3, <2>2, <2>3
<1>5. Stacked(m'.stack)
  BY <1>3 DEF Stacked
<1>6. ResumesBehind' /\ sites' \in Seq(Nat)
  BY <1>3, <1>4, <1>5, SitesFollow
<1>7. compared' # <<>> => Signs(m'.flags, compared'[1], compared'[2])
  BY <1>3 DEF UnknownLabel, IInv, HistoryOK, SameSigns, Signs
<1>8. UNCHANGED <<program, enabled, cycles, compared>> /\ status' = "error"
  BY DEF UnknownLabel
<1>9. TypeOK' /\ NoTrapPending'
  BY <1>3, <1>8 DEF IInv, TypeOK, NoTrapPending
<1>10. HistoryOK'
  BY <1>6, <1>7, <1>8 DEF IInv, HistoryOK
<1> QED BY <1>6, <1>9, <1>10 DEF IInv

LEMMA JumpsKeep == ASSUME IInv, UnknownLabel \/ Jump \/ FlagJump PROVE IInv'
<1>1. CASE UnknownLabel
  BY <1>1, UnknownLabelKeeps
<1>2. CASE Labelled({"JMP", "JIF"}) /\ Retire(Goto(m))
  <2>1. Executes({"JMP", "JIF"}) /\ Instr.to \in Nat /\ m \in Machine
    BY <1>2, Branching DEF Branches
  <2>2. SameSigns(Goto(m).flags, m.flags)
    BY <2>1, GotoType DEF SameSigns
  <2> QED BY <1>2, <2>1, <2>2, GotoType, PlainTurn
<1>3. CASE Executes({"JMP", "JIF"}) /\ Retire(Past(m))
  BY <1>3, PastTurn
<1>4. ASSUME NEW b \in Machine, NEW t \in BOOLEAN, m \in Machine, Executes(OnFlags),
             b.flags = m.flags, b.traps = m.traps, b.stack = m.stack,
             Retire([b EXCEPT !.flags.pf = t])
      PROVE  IInv'
  <2> DEFINE c == [b EXCEPT !.flags.pf = t]
  <2>1. [m.flags EXCEPT !.pf = t] \in Flag /\ SameSigns([m.flags EXCEPT !.pf = t], m.flags)
    BY <1>4 DEF Machine, Flag, SameSigns
  <2>2. /\ c \in Machine /\ c.flags = [m.flags EXCEPT !.pf = t]
        /\ c.traps = m.traps /\ c.stack = m.stack
    BY <1>4, <2>1 DEF Machine
  <2>3. Retire(c)
    BY <1>4
  <2> HIDE DEF c
  <2> QED BY <1>4, <2>1, <2>2, <2>3, PlainTurn
<1>5. CASE Labelled(OnFlags) /\ Retire([Goto(m) EXCEPT !.flags.pf = TRUE])
  <2>1. Executes(OnFlags) /\ Instr.to \in Nat /\ m \in Machine
    BY <1>5, Branching DEF Branches, OnFlags
  <2> QED BY <1>4, <1>5, <2>1, GotoType
<1>6. CASE Executes(OnFlags) /\ Retire([Past(m) EXCEPT !.flags.pf = FALSE])
  <2>1. m \in Machine
    BY <1>6, Executing
  <2> QED BY <1>4, <1>6, <2>1, PastType
<1> QED BY <1>1, <1>2, <1>3, <1>5, <1>6 DEF Jump, FlagJump

LEMMA CallsKeep == ASSUME IInv, Call \/ Underflow \/ Ret \/ Reti PROVE IInv'
<1>1. CASE Call
  <2> DEFINE c == [Goto(m) EXCEPT !.stack = Append(@, m.pc + 1)]
  <2>1. Executes({"CALL"}) /\ Instr.to \in Nat /\ m \in Machine /\ Retire(c)
    BY <1>1, Branching DEF Call, Branches
  <2>2. Append(m.stack, m.pc + 1) \in Seq(Nat)
    BY <2>1 DEF Machine
  <2>3. /\ c \in Machine /\ c.flags = m.flags /\ c.traps = m.traps
        /\ c.stack = Append(m.stack, m.pc + 1)
    BY <2>1, <2>2, GotoType DEF Machine
  <2>4. Stacked(c.stack) /\ SameSigns(c.flags, m.flags)
    BY <2>3 DEF Stacked, SameSigns
  <2> HIDE DEF c
  <2> QED BY <2>1, <2>3, <2>4, Executing, QuietTurn
<1>2. CASE Underflow
  <2>1. Executes({"RET", "RETI"}) /\ Retire(Halted(m)) /\ m \in Machine
    BY <1>2, Executing DEF Underflow
  <2>2. /\ Halted(m) \in Machine /\ Halted(m).traps = m.traps /\ Halted(m).stack = m.stack
        /\ SameSigns(Halted(m).flags, m.flags)
    BY <2>1 DEF Halted, Machine, SameSigns
  <2> QED BY <2>1, <2>2, PlainTurn
<1>3. ASSUME m \in Machine, m.stack # <<>>
      PROVE  /\ Pop(m) \in Machine /\ Pop(m).flags = m.flags /\ Pop(m).traps = m.traps
             /\ Pop(m).stack = SubSeq(m.stack, 1, Len(m.stack) - 1)
  <2>1. m.stack[Len(m.stack)] \in Nat /\ SubSeq(m.stack, 1, Len(m.stack) - 1) \in Seq(Nat)
    BY <1>3 DEF Machine
  <2> QED BY <1>3, <2>1 DEF Pop, Machine
<1>4. CASE Ret
  <2>1. Executes({"RET"}) /\ m.stack # <<>> /\ Retire(Pop(m))
    BY <1>4 DEF Ret
  <2>2. m \in Machine /\ m.traps = NoTraps
    BY <2>1, Executing
  <2>3. Stacked(Pop(m).stack) /\ SameSigns(Pop(m).flags, m.flags)
    BY <1>3, <2>1, <2>2 DEF Stacked, SameSigns
  <2> QED BY <1>3, <2>1, <2>2, <2>3, Executing, QuietTurn
<1>5. CASE Reti
  <2> DEFINE c == [Pop(m) EXCEPT !.traps = NoTraps]
  <2>1. Executes({"RETI"}) /\ m.stack # <<>> /\ Retire(c)
    BY <1>5 DEF Reti
  <2>2. m \in Machine
    BY <2>1, Executing
  <2>3. c \in Machine /\ c.traps = NoTraps /\ c.stack = Pop(m).stack /\ c.flags = m.flags
    BY <1>3, <2>1, <2>2 DEF Machine, NoTraps
  <2>4. Stacked(c.stack) /\ SameSigns(c.flags, m.flags)
    BY <1>3, <2>1, <2>2, <2>3 DEF Stacked, SameSigns
  <2> HIDE DEF c
  <2> QED BY <2>1, <2>3, <2>4, Executing, QuietTurn
<1> QED BY <1>1, <1>2, <1>4, <1>5

LEMMA OthersKeep == ASSUME IInv, SetIV \/ Halt \/ Nop \/ Ecall PROVE IInv'
<1>1. CASE SetIV
  <2> DEFINE c == [Past(m) EXCEPT !.isr[Instr.trap] = Instr.to]
  <2>1. Executes({"SETIV"}) /\ Instr.to \in Nat /\ m \in Machine /\ Retire(c)
    BY <1>1, Branching DEF SetIV, Branches
  <2>2. c \in Machine /\ c.traps = m.traps /\ c.stack = m.stack /\ SameSigns(c.flags, m.flags)
    BY <2>1, PastType DEF Machine, SameSigns
  <2> HIDE DEF c
  <2> QED BY <2>1, <2>2, PlainTurn
<1>2. CASE Halt
  <2>1. Executes({"HALT"}) /\ Retire(Halted(m)) /\ m \in Machine
    BY <1>2, Executing DEF Halt
  <2>2. /\ Halted(m) \in Machine /\ Halted(m).traps = m.traps /\ Halted(m).stack = m.stack
        /\ SameSigns(Halted(m).flags, m.flags)
    BY <2>1 DEF Halted, Machine, SameSigns
  <2> QED BY <2>1, <2>2, PlainTurn
<1>3. CASE Nop
  BY <1>3, PastTurn DEF Nop
<1>4. CASE Ecall
  <2>1. CASE Executes({"ECALL"}) /\ Retire(Past(m))
    BY <2>1, PastTurn
  <2>2. CASE Executes({"ECALL"}) /\ Stop("error")
    BY <2>2, Stopping DEF Executes, Running
  <2> QED BY <1>4, <2>1, <2>2 DEF Ecall
<1> QED BY <1>1, <1>2, <1>3, <1>4

LEMMA LoopKeeps == ASSUME IInv, Limit \/ Finish PROVE IInv'
<1>1. CASE Limit
  <2>1. m \in Machine /\ m.traps = NoTraps
    BY <1>1 DEF Limit, Running, IInv, TypeOK, NoTrapPending
  <2>2. m' \in Machine /\ m'.traps = NoTraps /\ m'.stack = m.stack /\ m'.flags = m.flags
    BY <1>1, <2>1 DEF Limit, Halted, Machine
  <2> QED BY <1>1, <2>2 DEF Limit, IInv, TypeOK, NoTrapPending, ResumesBehind, HistoryOK
<1>2. CASE Finish
  BY <1>2, Stopping DEF Finish
<1> QED BY <1>1, <1>2

(***************************************************************************)
(* The theorems.                                                           *)
(***************************************************************************)
LEMMA Initially == Init => IInv
<1> SUFFICES ASSUME Init PROVE IInv
  OBVIOUS
<1>1. m \in Machine /\ m.traps = NoTraps /\ m.stack = <<>>
  BY BitsAreWords DEF Init, Machine, NoTraps, Flag
<1> QED BY <1>1, MaxCyclesAssumption DEF Init, IInv, TypeOK, NoTrapPending, ResumesBehind, HistoryOK

LEMMA StepKeeps == IInv /\ [Next]_vars => IInv'
<1> SUFFICES ASSUME IInv, [Next]_vars PROVE IInv'
  OBVIOUS
<1>1. CASE UNCHANGED vars
  BY <1>1 DEF vars, IInv, TypeOK, NoTrapPending, ResumesBehind, HistoryOK
<1>2. CASE Next
  BY <1>2, LoopKeeps, ArithmeticKeeps, DivideKeeps, ShiftKeeps, BitwiseKeeps, LoadsKeep,
     FloatsKeep, CompareKeeps, ICmpKeeps, FloatCompareKeeps, ReduceKeeps, ConvertKeeps,
     QubitConfigKeeps, QuantumKeeps, JumpsKeep, CallsKeep, OthersKeep DEF Next
<1> QED BY <1>1, <1>2

LEMMA Invariantly == Spec => []IInv
BY Initially, StepKeeps, PTL DEF Spec

\* For every width, program and cycle limit the context keeps its type: whatever overflows, a
\* register holds a word, and the program counter and the call stack hold addresses.
THEOREM ProcessorTypeCorrect == Spec => []TypeOK
<1>1. IInv => TypeOK
  BY DEF IInv
<1> QED BY <1>1, Invariantly, PTL

\* No trap is pending between two instructions, so RETI, which clears every flag, drops none.
THEOREM NoTrapOutlivesItsTurn == Spec => []NoTrapPending
<1>1. IInv => NoTrapPending
  BY DEF IInv
<1> QED BY <1>1, Invariantly, PTL

\* Whatever a program does with CALL, RET, RETI and traps, an address on the stack is the one
\* behind the instruction that pushed it.
THEOREM StackResumesBehind == Spec => []ResumesBehind
<1>1. IInv => ResumesBehind
  BY DEF IInv
<1> QED BY <1>1, Invariantly, PTL

\* A turn that executes JGT or JLE is a jump on flags.
LEMMA OnlyFlagJump ==
    ASSUME Next, Executes({"JGT", "JLE"}), cycles' # cycles
    PROVE  FlagJump
<1>1. Instr.op \in {"JGT", "JLE"} /\ Running /\ cycles < MaxCycles
  BY DEF Executes
<1>2. \A how : ~Stop(how)
  BY DEF Stop
<1>3. ~(Limit \/ Finish)
  BY <1>2 DEF Limit, Finish
<1>4. ~(Arithmetic \/ Increment \/ DivideByZero \/ DivideOverflows \/ Divide \/ Shift \/ Bitwise)
  BY <1>1 DEF Arithmetic, Increment, DivideByZero, DivideOverflows, Divide, Shift, Bitwise, Executes
<1>5. ~(LoadImmediate \/ BadAddress \/ LoadIndirect \/ StoreIndirect \/ FloatIndirect \/ Compare \/ ICmp)
  BY <1>1 DEF LoadImmediate, BadAddress, LoadIndirect, StoreIndirect, FloatIndirect, Compare, ICmp,
              Indirect, Executes
<1>6. ~(FloatArithmetic \/ ComplexArithmetic \/ FloatDivideByZero \/ SquareRoot \/ FloatMove
        \/ Transcendental \/ Reduce \/ FloatCompare)
  BY <1>1 DEF FloatArithmetic, ComplexArithmetic, FloatDivideByZero, SquareRoot, FloatMove,
              Transcendental, Reduce, FloatCompare, Executes
<1>7. ~(Convert \/ QubitConfig \/ Kernel \/ Exhausted \/ Teleport \/ UnknownLabel \/ Jump)
  <2>1. ~UnknownLabel
    BY DEF UnknownLabel
  <2> QED BY <1>1, <2>1 DEF Convert, QubitConfig, Kernel, Exhausted, Teleport, Jump, Labelled, Executes
<1>8. ~(Call \/ Underflow \/ Ret \/ Reti \/ SetIV \/ Halt \/ Nop \/ Ecall)
  BY <1>1 DEF Call, Underflow, Ret, Reti, SetIV, Halt, Nop, Ecall, Labelled, Executes
<1> QED BY <1>3, <1>4, <1>5, <1>6, <1>7, <1>8 DEF Next

\* The condition of JGT is the signed comparison, if the flags are those of a difference.
LEMMA GreaterSigned ==
    ASSUME NEW f \in Flag, NEW a \in Word, NEW b \in Word, Signs(f, a, b)
    PROVE  Greater(f) <=> a > b
<1>1. a \in Int /\ b \in Int
  BY WordInt
<1>2. f.zf \in BOOLEAN /\ f.nf \in BOOLEAN /\ f.of \in BOOLEAN
  BY DEF Flag
<1> DEFINE w == Wrap(a - b)
<1>3. (w = 0) <=> (a = b)
  BY SignedComparison
<1>4. a # b => (((w < 0) <=> (a - b # w)) <=> a > b)
  BY SignedComparison
<1>5. (f.zf <=> w = 0) /\ (f.nf <=> w < 0) /\ (f.of <=> a - b # w)
  BY DEF Signs
<1>6. a = b => ~(a > b)
  BY <1>1
<1>7. Greater(f) <=> (~f.zf /\ (f.nf <=> f.of))
  BY <1>2 DEF Greater
<1> HIDE DEF w
<1> QED BY <1>3, <1>4, <1>5, <1>6, <1>7

\* The branch is taken if the comparison that the flags come from says so.
LEMMA BranchSigned ==
    ASSUME IInv, FlagJump, compared # <<>>, Executes({"JGT", "JLE"})
    PROVE  m'.pc = IF (compared[1] > compared[2]) = (Instr.op = "JGT") THEN Instr.to ELSE m.pc + 1
<1> DEFINE t == Taken(m.flags)
<1>1. m \in Machine /\ m.traps = NoTraps
  BY Executing
<1>2. Instr.op \in {"JGT", "JLE"}
  BY DEF Executes
<1>3. Greater(m.flags) <=> compared[1] > compared[2]
  <2>1. /\ compared[1] \in Word /\ compared[2] \in Word /\ m.flags \in Flag
        /\ Signs(m.flags, compared[1], compared[2])
    BY <1>1 DEF IInv, HistoryOK, Machine
  <2> QED BY <2>1, GreaterSigned
<1>4. t <=> ((compared[1] > compared[2]) <=> (Instr.op = "JGT"))
  <2> DEFINE g == compared[1] > compared[2]
  <2>1. t <=> IF Instr.op = "JGT" THEN Greater(m.flags) ELSE ~Greater(m.flags)
    BY <1>2 DEF Taken
  <2>2. Greater(m.flags) <=> g
    BY <1>3
  <2> HIDE DEF g, t
  <2>3. t <=> (g <=> (Instr.op = "JGT"))
    BY <2>1, <2>2
  <2> QED BY <2>3 DEF g
<1>5. ASSUME NEW b \in Machine, NEW p \in BOOLEAN, b.traps = m.traps,
             Retire([b EXCEPT !.flags.pf = p])
      PROVE  m'.pc = b.pc
  <2> DEFINE c == [b EXCEPT !.flags.pf = p]
  <2>1. [b.flags EXCEPT !.pf = p] \in Flag
    BY DEF Machine, Flag
  <2>2. c \in Machine /\ c.traps = m.traps /\ c.pc = b.pc
    BY <1>5, <2>1 DEF Machine
  <2>3. Retire(c)
    BY <1>5
  <2> HIDE DEF c
  <2>4. m' = c
    BY <1>1, <2>2, <2>3, QuietDispatch DEF Retire
  <2> QED BY <2>2, <2>4
<1> HIDE DEF t
<1>6. CASE Labelled(OnFlags) /\ t /\ Retire([Goto(m) EXCEPT !.flags.pf = TRUE])
  <2>1. Instr.to \in Nat
    BY <1>6, Branching DEF Branches, OnFlags
  <2>2. Goto(m) \in Machine /\ Goto(m).traps = m.traps /\ Goto(m).pc = Instr.to
    BY <1>1, <2>1, GotoType DEF Goto, Machine
  <2>3. m'.pc = Instr.to
    BY <1>5, <1>6, <2>2
  <2> QED BY <1>4, <1>6, <2>3
<1>7. CASE Executes(OnFlags) /\ ~t /\ Retire([Past(m) EXCEPT !.flags.pf = FALSE])
  <2>1. m'.pc = m.pc + 1
    BY <1>1, <1>5, <1>7, PastType
  <2> QED BY <1>4, <1>7, <2>1
<1> QED BY <1>6, <1>7 DEF FlagJump, t

\* For every width JGT and JLE compare the operands of the ICMP before them as signed
\* integers, even if the subtraction overflowed.
THEOREM BranchesAreSigned == Spec => SignedBranches
<1>1. ASSUME IInv, [Next]_vars
      PROVE  [compared # <<>> /\ Executes({"JGT", "JLE"}) /\ cycles' # cycles =>
                m'.pc = IF (compared[1] > compared[2]) = (Instr.op = "JGT")
                        THEN Instr.to ELSE m.pc + 1]_vars
  BY <1>1, OnlyFlagJump, BranchSigned DEF vars
<1> QED BY <1>1, Invariantly, PTL DEF Spec, SignedBranches

(***************************************************************************)
(* Instruction words.                                                      *)
(***************************************************************************)
\* An operand of a kind: a signed field in its range, any other a natural number.
Operand(kind, v) ==
    /\ kind = "i16" => v \in Int /\ -32768 <= v /\ v <= 32767
    /\ kind = "i8" => v \in Int /\ -128 <= v /\ v <= 127
    /\ kind \notin {"i16", "i8"} => v \in Nat
Operands(op, numbers) ==
    /\ DOMAIN numbers = DOMAIN Fields[op]
    /\ \A k \in DOMAIN Fields[op] : Operand(Fields[op][k], numbers[k])
\* What the decoder makes of the number a field carried.
Carried(kind, v, symbols) ==
    CASE kind = "target" -> [addr |-> v]
      [] kind = "name"   -> IF v \in DOMAIN symbols THEN symbols[v] ELSE [id |-> v]
      [] OTHER           -> v

\* Where a field begins, the opcode counted as field 0, and its width.
Place(op, k) == IF k = 0 THEN 24 ELSE Slots[op][k][1]
Breadth(op, k) == Reads[op][k][2]
FieldValue(op, numbers, k) == Unsigned(Fields[op][k], numbers[k])
\* The part of the word from field k upwards, and the part below it.
Upper(op, numbers, k) ==
    Opcode(op) * 2^24 + (IF k >= 1 THEN Bits(op, numbers, 1) ELSE 0)
                      + (IF k >= 2 THEN Bits(op, numbers, 2) ELSE 0)
                      + (IF k >= 3 THEN Bits(op, numbers, 3) ELSE 0)
                      + (IF k >= 4 THEN Bits(op, numbers, 4) ELSE 0)
                      + (IF k >= 5 THEN Bits(op, numbers, 5) ELSE 0)
Lower(op, numbers, k) ==
    (IF k < 1 THEN Bits(op, numbers, 1) ELSE 0) + (IF k < 2 THEN Bits(op, numbers, 2) ELSE 0)
    + (IF k < 3 THEN Bits(op, numbers, 3) ELSE 0) + (IF k < 4 THEN Bits(op, numbers, 4) ELSE 0)
    + (IF k < 5 THEN Bits(op, numbers, 5) ELSE 0)

\* By a name that the solver does not evaluate.
Power(n) == 2^n

LEMMA PowerTable ==
  /\ Power(0) = 1 /\ Power(1) = 2 /\ Power(2) = 4 /\ Power(3) = 8 /\ Power(4) = 16
  /\ Power(5) = 32 /\ Power(6) = 64 /\ Power(7) = 128 /\ Power(8) = 256 /\ Power(9) = 512
  /\ Power(10) = 1024 /\ Power(11) = 2048 /\ Power(12) = 4096 /\ Power(13) = 8192 /\ Power(14) = 16384
  /\ Power(15) = 32768 /\ Power(16) = 65536 /\ Power(17) = 131072 /\ Power(18) = 262144 /\ Power(19) = 524288
  /\ Power(20) = 1048576 /\ Power(21) = 2097152 /\ Power(22) = 4194304 /\ Power(23) = 8388608 /\ Power(24) = 16777216
BY SMT DEF Power

LEMMA PowerPositive ==
  ASSUME NEW n \in 0 .. 24
  PROVE  Power(n) \in Nat \ {0}
BY PowerTable

LEMMA PowerSum ==
  ASSUME NEW a \in 0 .. 24, NEW b \in 0 .. 24, a + b <= 24
  PROVE  Power(a + b) = Power(a) * Power(b)
<1>1. a + b \in 0 .. 24  OBVIOUS
<1> QED  BY <1>1, PowerTable

\* Some g has v in its low w bits and is what a part h that begins at q, with v at p, begins with.
OnTop(p, w, q, h, v) ==
    \E g \in Nat : h * Power(q) + v * Power(p) = g * Power(p) /\ g % Power(w) = v
\* A field added below a part that begins at q: the new part begins at p, and ends in the field.
LEMMA FieldOnTop ==
  ASSUME NEW p \in 0 .. 24, NEW w \in 0 .. 24, NEW q \in 0 .. 24, p + w <= q,
         NEW h \in Nat, NEW v \in 0 .. (Power(w) - 1)
  PROVE  OnTop(p, w, q, h, v)
<1> DEFINE gap == q - (p + w)
           P == Power(p)
           W == Power(w)
           G == Power(gap)
<1>1. gap \in 0 .. 24 /\ p + w \in 0 .. 24 /\ (p + w) + gap = q  OBVIOUS
<1>2. P \in Nat \ {0} /\ W \in Nat \ {0} /\ G \in Nat \ {0}  BY <1>1, PowerPositive
<1>3. Power(p + w) = P * W  BY PowerSum
<1>4. Power(q) = (P * W) * G
  <2> HIDE DEF gap
  <2>1. Power((p + w) + gap) = Power(p + w) * Power(gap)  BY <1>1, PowerSum
  <2> QED  BY <2>1, <1>1, <1>3
<1> HIDE DEF P, W, G
<1> DEFINE g == (h * G) * W + v
<1>5. h * G \in Nat  BY <1>2
<1>6. v \in 0 .. (W - 1)  BY DEF W
<1>7. g \in Nat /\ g % W = v
  <2> DEFINE k == h * G
  <2>1. k \in Nat  BY <1>5
  <2> HIDE DEF k
  <2>2. k * W + v \in Nat /\ (k * W + v) % W = v  BY <2>1, <1>2, <1>6
  <2> QED  BY <2>2 DEF k
<1>8. h * Power(q) + v * P = g * P
  <2>1. h * ((P * W) * G) = ((h * G) * W) * P  BY <1>2
  <2>2. ((h * G) * W + v) * P = ((h * G) * W) * P + v * P  BY <1>2, <1>5, <1>6
  <2> QED  BY <2>1, <2>2, <1>4
<1> QED  BY <1>7, <1>8 DEF OnTop, P, W

\* What lies below a field, and the field with it.
LEMMA FieldFits ==
  ASSUME NEW p \in 0 .. 24, NEW w \in 0 .. 24, NEW q \in 0 .. 24, p + w <= q,
         NEW lower \in Nat, lower < Power(p), NEW v \in 0 .. (Power(w) - 1)
  PROVE  v * Power(p) + lower \in Nat /\ v * Power(p) + lower < Power(q)
<1> DEFINE gap == q - (p + w)
           P == Power(p)
           W == Power(w)
           G == Power(gap)
<1>1. gap \in 0 .. 24 /\ p + w \in 0 .. 24 /\ (p + w) + gap = q  OBVIOUS
<1>2. P \in Nat \ {0} /\ W \in Nat \ {0} /\ G \in Nat \ {0}  BY <1>1, PowerPositive
<1>3. Power(p + w) = P * W  BY PowerSum
<1>4. Power(q) = (P * W) * G
  <2> HIDE DEF gap
  <2>1. Power((p + w) + gap) = Power(p + w) * Power(gap)  BY <1>1, PowerSum
  <2> QED  BY <2>1, <1>1, <1>3
<1>5. v \in 0 .. (W - 1) /\ lower < P  OBVIOUS
<1> HIDE DEF P, W, G
<1>6. v * P + lower \in Nat /\ v * P + lower < (v + 1) * P  BY <1>2, <1>5
<1>7. (v + 1) * P <= W * P
  <2>1. v + 1 <= W  BY <1>2, <1>5
  <2> QED  BY <2>1, <1>2, <1>5
<1>8. W * P <= (P * W) * G
  <2>1. P * W \in Nat  BY <1>2
  <2>2. P * W <= (P * W) * G  BY <2>1, <1>2
  <2> QED  BY <2>2, <1>2
<1>9. (v + 1) * P \in Nat /\ W * P \in Nat /\ (P * W) * G \in Nat  BY <1>2, <1>5
<1>10. v * P + lower < Power(q)  BY <1>4, <1>6, <1>7, <1>8, <1>9
<1> QED  BY <1>6, <1>10 DEF P

\* Shift and mask.
LEMMA FieldTaken ==
  ASSUME NEW P \in Nat \ {0}, NEW W \in Nat \ {0}, NEW g \in Nat, NEW lower \in 0 .. (P - 1)
  PROVE  (g * P + lower) \div P = g
OBVIOUS

\* The numbers of an instruction and its format, as the tables have them.
Given(op, numbers) == op \in Mnemonics /\ Operands(op, numbers) /\ Fits(op, numbers)

LEMMA UnsignedType ==
  ASSUME NEW kind, NEW v, Operand(kind, v)
  PROVE  Unsigned(kind, v) \in Nat
<1>1. CASE kind = "i16"
  <2>1. v \in Int  BY <1>1 DEF Operand
  <2>2. v % 65536 \in Nat  BY <2>1
  <2>3. Unsigned(kind, v) = v % 65536  BY <1>1 DEF Unsigned
  <2> QED  BY <2>2, <2>3
<1>2. CASE kind = "i8"  BY <1>2 DEF Operand, Unsigned
<1>3. CASE kind # "i16" /\ kind # "i8"  BY <1>3 DEF Operand, Unsigned
<1> QED  BY <1>1, <1>2, <1>3

LEMMA FieldFacts ==
  ASSUME NEW op, NEW numbers, Given(op, numbers), NEW k \in DOMAIN Fields[op]
  PROVE  /\ Place(op, k) \in 0 .. 24 /\ Place(op, k - 1) \in 0 .. 24
         /\ Breadth(op, k) \in 0 .. 24 /\ Place(op, k) + Breadth(op, k) <= Place(op, k - 1)
         /\ FieldValue(op, numbers, k) \in 0 .. (Power(Breadth(op, k)) - 1)
         /\ Bits(op, numbers, k) = FieldValue(op, numbers, k) * Power(Place(op, k))
<1>1. op \in Mnemonics /\ k \in 1 .. Len(Fields[op]) /\ Len(Fields[op]) \in 0 .. 5
  BY FormatsAssumption DEF Given
<1>2. /\ Slots[op][k][1] \in 0 .. 24 /\ Reads[op][k][2] \in 0 .. 24
      /\ Slots[op][k][2] \in 0 .. (2^Reads[op][k][2] - 1)
      /\ Slots[op][k][1] + Reads[op][k][2] <= (IF k = 1 THEN 24 ELSE Slots[op][k - 1][1])
  BY <1>1, FormatsAssumption
<1>3. Place(op, k) = Slots[op][k][1] /\ Breadth(op, k) = Reads[op][k][2]
  BY <1>1 DEF Place, Breadth
<1>4. Place(op, k - 1) = (IF k = 1 THEN 24 ELSE Slots[op][k - 1][1])
  BY <1>1 DEF Place
<1>5. Place(op, k - 1) \in 0 .. 24
  <2>1. CASE k = 1  BY <2>1, <1>4
  <2>2. CASE k # 1
    <3>1. k - 1 \in DOMAIN Fields[op]  BY <2>2, <1>1
    <3>2. Slots[op][k - 1][1] \in 0 .. 24  BY <3>1, <1>1, FormatsAssumption
    <3> QED  BY <3>2, <2>2, <1>4
  <2> QED  BY <2>1, <2>2
<1>6. FieldValue(op, numbers, k) \in Nat /\ k \in DOMAIN numbers
  BY UnsignedType DEF FieldValue, Given, Operands
<1>7. FieldValue(op, numbers, k) <= Slots[op][k][2]  BY <1>6 DEF FieldValue, Given, Fits
<1>8. Power(Breadth(op, k)) \in Nat /\ Slots[op][k][2] \in 0 .. (Power(Breadth(op, k)) - 1)
  BY <1>2, <1>3, PowerPositive DEF Power
<1>9. FieldValue(op, numbers, k) \in 0 .. (Power(Breadth(op, k)) - 1)  BY <1>6, <1>7, <1>8
<1>10. Bits(op, numbers, k) = FieldValue(op, numbers, k) * Power(Place(op, k))
  BY <1>3, <1>6 DEF Bits, FieldValue, Power
<1> QED  BY <1>2, <1>3, <1>4, <1>5, <1>9, <1>10

LEMMA NoField ==
  ASSUME NEW op, NEW numbers, Given(op, numbers), NEW k, k \notin DOMAIN Fields[op]
  PROVE  Bits(op, numbers, k) = 0
BY DEF Given, Operands, Bits

LEMMA BitsType ==
  ASSUME NEW op, NEW numbers, Given(op, numbers), NEW k
  PROVE  Bits(op, numbers, k) \in Nat
<1>1. CASE k \in DOMAIN Fields[op]
  <2>1. /\ Bits(op, numbers, k) = FieldValue(op, numbers, k) * Power(Place(op, k))
        /\ FieldValue(op, numbers, k) \in 0 .. (Power(Breadth(op, k)) - 1)
        /\ Place(op, k) \in 0 .. 24 /\ Breadth(op, k) \in 0 .. 24
    BY <1>1, FieldFacts
  <2>2. Power(Place(op, k)) \in Nat /\ Power(Breadth(op, k)) \in Nat  BY <2>1, PowerPositive
  <2> QED  BY <2>1, <2>2
<1>2. CASE k \notin DOMAIN Fields[op]  BY <1>2, NoField
<1> QED  BY <1>1, <1>2

\* The word is what is above a field with it, and what is below.
LEMMA Parts ==
  ASSUME NEW op, NEW numbers, Given(op, numbers)
  PROVE  /\ \A k \in 0 .. 5 : /\ Upper(op, numbers, k) \in Nat /\ Lower(op, numbers, k) \in Nat
                              /\ Encode(op, numbers) = Upper(op, numbers, k) + Lower(op, numbers, k)
         /\ \A k \in 1 .. 5 :
               /\ Upper(op, numbers, k) = Upper(op, numbers, k - 1) + Bits(op, numbers, k)
               /\ Lower(op, numbers, k - 1) = Bits(op, numbers, k) + Lower(op, numbers, k)
         /\ Upper(op, numbers, 0) = Opcode(op) * Power(24) /\ Lower(op, numbers, 5) = 0
<1> DEFINE b(k) == Bits(op, numbers, k)
           c == Opcode(op) * 2^24
<1>1. b(1) \in Nat /\ b(2) \in Nat /\ b(3) \in Nat /\ b(4) \in Nat /\ b(5) \in Nat
  BY BitsType
<1>2. c \in Nat /\ c = Opcode(op) * Power(24)
  <2>1. Opcode(op) \in Nat  BY FormatsAssumption DEF Given
  <2>2. Power(24) \in Nat  BY PowerPositive
  <2> QED  BY <2>1, <2>2 DEF Power
<1>3. Encode(op, numbers) = c + b(1) + b(2) + b(3) + b(4) + b(5)  BY DEF Encode
<1>4. \A k : Upper(op, numbers, k) =
         c + (IF k >= 1 THEN b(1) ELSE 0) + (IF k >= 2 THEN b(2) ELSE 0)
           + (IF k >= 3 THEN b(3) ELSE 0) + (IF k >= 4 THEN b(4) ELSE 0)
           + (IF k >= 5 THEN b(5) ELSE 0)
  BY DEF Upper
<1>5. \A k : Lower(op, numbers, k) =
         (IF k < 1 THEN b(1) ELSE 0) + (IF k < 2 THEN b(2) ELSE 0) + (IF k < 3 THEN b(3) ELSE 0)
         + (IF k < 4 THEN b(4) ELSE 0) + (IF k < 5 THEN b(5) ELSE 0)
  BY DEF Lower
<1> DEFINE U(k) == Upper(op, numbers, k)
           L(k) == Lower(op, numbers, k)
<1> HIDE DEF b, c
<1>6. /\ U(0) = c /\ U(1) = c + b(1) /\ U(2) = c + b(1) + b(2)
      /\ U(3) = c + b(1) + b(2) + b(3) /\ U(4) = c + b(1) + b(2) + b(3) + b(4)
      /\ U(5) = c + b(1) + b(2) + b(3) + b(4) + b(5)
  BY <1>1, <1>2, <1>4
<1>7. /\ L(0) = b(1) + b(2) + b(3) + b(4) + b(5) /\ L(1) = b(2) + b(3) + b(4) + b(5)
      /\ L(2) = b(3) + b(4) + b(5) /\ L(3) = b(4) + b(5) /\ L(4) = b(5) /\ L(5) = 0
  BY <1>1, <1>5
<1> HIDE DEF U, L
<1>8. \A k \in 0 .. 5 : U(k) \in Nat /\ L(k) \in Nat /\ Encode(op, numbers) = U(k) + L(k)
  BY <1>1, <1>2, <1>3, <1>6, <1>7
<1>9. \A k \in 1 .. 5 : U(k) = U(k - 1) + b(k) /\ L(k - 1) = b(k) + L(k)
  BY <1>1, <1>2, <1>6, <1>7
<1> QED  BY <1>2, <1>6, <1>7, <1>8, <1>9 DEF U, L, b

High(op, numbers, k) ==
    \E g \in Nat : /\ Upper(op, numbers, k) = g * Power(Place(op, k))
                   /\ k > 0 => g % Power(Breadth(op, k)) = FieldValue(op, numbers, k)
Low(op, numbers, k) == Lower(op, numbers, k) < Power(Place(op, k))

LEMMA HighStep ==
  ASSUME NEW op, NEW numbers, Given(op, numbers), NEW k \in 1 .. 5, k \in DOMAIN Fields[op],
         High(op, numbers, k - 1)
  PROVE  High(op, numbers, k)
<1>1. PICK h \in Nat : Upper(op, numbers, k - 1) = h * Power(Place(op, k - 1))  BY DEF High
<1>2. Upper(op, numbers, k) = Upper(op, numbers, k - 1) + Bits(op, numbers, k)  BY Parts
<1>3. /\ Place(op, k) \in 0 .. 24 /\ Place(op, k - 1) \in 0 .. 24
      /\ Breadth(op, k) \in 0 .. 24 /\ Place(op, k) + Breadth(op, k) <= Place(op, k - 1)
      /\ FieldValue(op, numbers, k) \in 0 .. (Power(Breadth(op, k)) - 1)
      /\ Bits(op, numbers, k) = FieldValue(op, numbers, k) * Power(Place(op, k))
  BY FieldFacts
<1>4. OnTop(Place(op, k), Breadth(op, k), Place(op, k - 1), h, FieldValue(op, numbers, k))
  BY <1>3, FieldOnTop
<1>5. PICK g \in Nat : /\ h * Power(Place(op, k - 1)) + FieldValue(op, numbers, k) * Power(Place(op, k))
                            = g * Power(Place(op, k))
                       /\ g % Power(Breadth(op, k)) = FieldValue(op, numbers, k)
  BY <1>4 DEF OnTop
<1> QED  BY <1>1, <1>2, <1>3, <1>5 DEF High

LEMMA LowStep ==
  ASSUME NEW op, NEW numbers, Given(op, numbers), NEW k \in 1 .. 5, k \in DOMAIN Fields[op],
         Low(op, numbers, k)
  PROVE  Low(op, numbers, k - 1)
<1>1. Lower(op, numbers, k - 1) = Bits(op, numbers, k) + Lower(op, numbers, k)
      /\ Lower(op, numbers, k) \in Nat
  <2>1. k \in 0 .. 5  OBVIOUS
  <2> QED  BY <2>1, Parts
<1>2. /\ Place(op, k) \in 0 .. 24 /\ Place(op, k - 1) \in 0 .. 24
      /\ Breadth(op, k) \in 0 .. 24 /\ Place(op, k) + Breadth(op, k) <= Place(op, k - 1)
      /\ FieldValue(op, numbers, k) \in 0 .. (Power(Breadth(op, k)) - 1)
      /\ Bits(op, numbers, k) = FieldValue(op, numbers, k) * Power(Place(op, k))
  BY FieldFacts
<1>3. Lower(op, numbers, k) < Power(Place(op, k))  BY DEF Low
<1>4. FieldValue(op, numbers, k) * Power(Place(op, k)) + Lower(op, numbers, k)
         < Power(Place(op, k - 1))
  BY <1>1, <1>2, <1>3, FieldFits
<1> QED  BY <1>1, <1>2, <1>4 DEF Low

LEMMA Highs ==
  ASSUME NEW op, NEW numbers, Given(op, numbers), NEW k \in DOMAIN Fields[op]
  PROVE  High(op, numbers, k)
<1> DEFINE n == Len(Fields[op])
           H(i) == High(op, numbers, i)
<1>1. n \in 0 .. 5 /\ DOMAIN Fields[op] = 1 .. n  BY FormatsAssumption DEF Given
<1>2. H(0)
  <2>1. Upper(op, numbers, 0) = Opcode(op) * Power(Place(op, 0))  BY Parts DEF Place
  <2>2. Opcode(op) \in Nat  BY FormatsAssumption DEF Given
  <2> QED  BY <2>1, <2>2 DEF High
<1>3. \A i \in 1 .. 5 : i <= n /\ H(i - 1) => H(i)
  <2>1. SUFFICES ASSUME NEW i \in 1 .. 5, i <= n, H(i - 1)  PROVE H(i)  OBVIOUS
  <2>2. i \in DOMAIN Fields[op]  BY <1>1, <2>1
  <2> QED  BY <2>1, <2>2, HighStep
<1> HIDE DEF n, H
<1>4. 1 <= n => H(1)  BY <1>2, <1>3
<1>5. 2 <= n => H(2)  BY <1>1, <1>3, <1>4
<1>6. 3 <= n => H(3)  BY <1>1, <1>3, <1>5
<1>7. 4 <= n => H(4)  BY <1>1, <1>3, <1>6
<1>8. 5 <= n => H(5)  BY <1>1, <1>3, <1>7
<1>9. k \in 1 .. 5 /\ k <= n  BY <1>1
<1>10. H(k)  BY <1>1, <1>4, <1>5, <1>6, <1>7, <1>8, <1>9
<1> QED  BY <1>10 DEF H

LEMMA Lows ==
  ASSUME NEW op, NEW numbers, Given(op, numbers), NEW k \in DOMAIN Fields[op]
  PROVE  Low(op, numbers, k)
<1> DEFINE n == Len(Fields[op])
           L(i) == Low(op, numbers, i)
<1>1. n \in 0 .. 5 /\ DOMAIN Fields[op] = 1 .. n  BY FormatsAssumption DEF Given
<1>2. n \in DOMAIN Fields[op]  BY <1>1
<1>3. L(n)
  <2>1. \A i \in 1 .. 5 : i > n => Bits(op, numbers, i) = 0
    <3>1. SUFFICES ASSUME NEW i \in 1 .. 5, i > n  PROVE Bits(op, numbers, i) = 0  OBVIOUS
    <3>2. i \notin DOMAIN Fields[op]  BY <1>1, <3>1
    <3> QED  BY <3>2, NoField
  <2> HIDE DEF n
  <2>2. Lower(op, numbers, n) = 0  BY <1>1, <2>1 DEF Lower
  <2>3. Place(op, n) \in 0 .. 24  BY <1>2, FieldFacts
  <2>4. Power(Place(op, n)) \in Nat \ {0}  BY <2>3, PowerPositive
  <2> QED  BY <2>2, <2>4 DEF Low
<1>4. \A i \in 1 .. 5 : i <= n /\ L(i) => L(i - 1)
  <2>1. SUFFICES ASSUME NEW i \in 1 .. 5, i <= n, L(i)  PROVE L(i - 1)  OBVIOUS
  <2>2. i \in DOMAIN Fields[op]  BY <1>1, <2>1
  <2> QED  BY <2>1, <2>2, LowStep
<1> HIDE DEF n, L
<1>5. 5 <= n => L(5)  BY <1>1, <1>3
<1>6. 4 <= n => L(4)  BY <1>1, <1>3, <1>4, <1>5
<1>7. 3 <= n => L(3)  BY <1>1, <1>3, <1>4, <1>6
<1>8. 2 <= n => L(2)  BY <1>1, <1>3, <1>4, <1>7
<1>9. 1 <= n => L(1)  BY <1>1, <1>3, <1>4, <1>8
<1>10. k \in 1 .. 5 /\ k <= n  BY <1>1
<1>11. L(k)  BY <1>1, <1>5, <1>6, <1>7, <1>8, <1>9, <1>10
<1> QED  BY <1>11 DEF L

\* The decoder takes each field out of the word as the encoder put it in.
LEMMA FieldRead ==
  ASSUME NEW op, NEW numbers, Given(op, numbers), NEW k \in DOMAIN Fields[op]
  PROVE  Extract(Encode(op, numbers), Reads[op][k][1], Reads[op][k][2]) = FieldValue(op, numbers, k)
<1>1. k \in 1 .. 5 /\ k # 0 /\ k \in 0 .. 5  BY FormatsAssumption DEF Given
<1>2. Reads[op][k][1] = Place(op, k) /\ Reads[op][k][2] = Breadth(op, k)
  BY <1>1, FormatsAssumption DEF Given, Place, Breadth
<1>3. Place(op, k) \in 0 .. 24 /\ Breadth(op, k) \in 0 .. 24  BY FieldFacts
<1>4. Power(Place(op, k)) \in Nat \ {0} /\ Power(Breadth(op, k)) \in Nat \ {0}
  BY <1>3, PowerPositive
<1>5. High(op, numbers, k) /\ Low(op, numbers, k)  BY Highs, Lows
<1>6. PICK g \in Nat : /\ Upper(op, numbers, k) = g * Power(Place(op, k))
                       /\ g % Power(Breadth(op, k)) = FieldValue(op, numbers, k)
  BY <1>1, <1>5 DEF High
<1>7. /\ Lower(op, numbers, k) \in Nat
      /\ Encode(op, numbers) = g * Power(Place(op, k)) + Lower(op, numbers, k)
  BY <1>1, <1>6, Parts
<1>8. Lower(op, numbers, k) \in 0 .. (Power(Place(op, k)) - 1)
  BY <1>4, <1>5, <1>7 DEF Low
<1>9. (g * Power(Place(op, k)) + Lower(op, numbers, k)) \div Power(Place(op, k)) = g
  BY <1>4, <1>8, FieldTaken
<1>10. Extract(Encode(op, numbers), Reads[op][k][1], Reads[op][k][2])
         = (Encode(op, numbers) \div Power(Place(op, k))) % Power(Breadth(op, k))
  BY <1>2 DEF Extract, Power
<1> QED  BY <1>6, <1>7, <1>9, <1>10

LEMMA OpcodeRead ==
  ASSUME NEW op, NEW numbers, Given(op, numbers)
  PROVE  MnemonicOf(Encode(op, numbers)) = op
<1> DEFINE lower == Lower(op, numbers, 0)
<1>1. /\ Opcode(op) \in Nat /\ Len(Fields[op]) \in 0 .. 5
      /\ DOMAIN Fields[op] = 1 .. Len(Fields[op])
      /\ MnemonicOf(Opcode(op) * 2^24) = op
  BY FormatsAssumption DEF Given
<1>2. Power(24) \in Nat \ {0}  BY PowerPositive
<1>3. lower \in Nat /\ Encode(op, numbers) = Opcode(op) * Power(24) + lower  BY Parts
<1>4. lower < Power(24)
  <2>1. CASE Len(Fields[op]) = 0
    <3>1. \A i \in 1 .. 5 : Bits(op, numbers, i) = 0  BY <1>1, <2>1, NoField
    <3>2. lower = 0  BY <3>1 DEF Lower
    <3> QED  BY <3>2, <1>2
  <2>2. CASE Len(Fields[op]) # 0
    <3>1. 1 \in DOMAIN Fields[op]  BY <1>1, <2>2
    <3>2. Low(op, numbers, 1)  BY <3>1, Lows
    <3>3. Low(op, numbers, 1 - 1)  BY <3>1, <3>2, LowStep
    <3>4. Place(op, 0) = 24  BY DEF Place
    <3> QED  BY <3>3, <3>4 DEF Low
  <2> QED  BY <2>1, <2>2
<1> HIDE DEF lower
<1>5. lower \in 0 .. (Power(24) - 1)  BY <1>2, <1>3, <1>4
<1>6. (Opcode(op) * Power(24) + lower) \div Power(24) = Opcode(op)
  BY <1>1, <1>2, <1>5, FieldTaken
<1>7. (Opcode(op) * Power(24) + 0) \div Power(24) = Opcode(op)
  <2>1. 0 \in 0 .. (Power(24) - 1)  BY <1>2
  <2> QED  BY <2>1, <1>1, <1>2, FieldTaken
<1>8. Opcode(op) * Power(24) + 0 = Opcode(op) * 2^24  BY <1>1, <1>2 DEF Power
<1>9. Encode(op, numbers) \div 2^24 = (Opcode(op) * 2^24) \div 2^24
  <2>1. Encode(op, numbers) \div Power(24) = (Opcode(op) * 2^24) \div Power(24)
    BY <1>3, <1>6, <1>7, <1>8
  <2> QED  BY <2>1 DEF Power
<1>10. MnemonicOf(Encode(op, numbers)) = MnemonicOf(Opcode(op) * 2^24)
  BY <1>9 DEF MnemonicOf
<1> QED  BY <1>1, <1>10

LEMMA SignRecovered ==
  ASSUME NEW v \in Int
  PROVE  /\ -32768 <= v /\ v <= 32767 => Signed(v % 65536, 16) = v
         /\ -128 <= v /\ v <= 127 => Signed(v % 256, 8) = v
<1>1. 2^15 = 32768 /\ 2^16 = 65536 /\ 2^7 = 128 /\ 2^8 = 256  BY SMT
<1>2. \A u : Signed(u, 16) = IF u >= 2^15 THEN u - 2^16 ELSE u  BY DEF Signed
<1>3. \A u : Signed(u, 8) = IF u >= 2^7 THEN u - 2^8 ELSE u  BY DEF Signed
<1>4. ASSUME -32768 <= v, v <= 32767  PROVE Signed(v % 65536, 16) = v
  <2>1. CASE v < 0
    <3>1. v % 65536 = v + 65536  BY <1>4, <2>1
    <3> QED  BY <1>1, <1>2, <1>4, <2>1, <3>1
  <2>2. CASE v >= 0
    <3>1. v % 65536 = v  BY <1>4, <2>2
    <3> QED  BY <1>1, <1>2, <1>4, <2>2, <3>1
  <2> QED  BY <2>1, <2>2
<1>5. ASSUME -128 <= v, v <= 127  PROVE Signed(v % 256, 8) = v
  <2>1. CASE v < 0
    <3>1. v % 256 = v + 256  BY <1>5, <2>1
    <3> QED  BY <1>1, <1>3, <1>5, <2>1, <3>1
  <2>2. CASE v >= 0
    <3>1. v % 256 = v  BY <1>5, <2>2
    <3> QED  BY <1>1, <1>3, <1>5, <2>2, <3>1
  <2> QED  BY <2>1, <2>2
<1> QED  BY <1>4, <1>5

LEMMA FieldDecoded ==
  ASSUME NEW op, NEW numbers, Given(op, numbers), NEW k \in DOMAIN Fields[op], NEW symbols
  PROVE  DecodedField(Encode(op, numbers), op, k, symbols)
            = Carried(Fields[op][k], numbers[k], symbols)
<1> DEFINE x == Extract(Encode(op, numbers), Reads[op][k][1], Reads[op][k][2])
           kind == Fields[op][k]
           v == numbers[k]
<1>1. x = Unsigned(kind, v)  BY FieldRead DEF FieldValue
<1>2. Operand(kind, v)  BY DEF Given, Operands
<1>3. DecodedField(Encode(op, numbers), op, k, symbols) =
         (CASE kind = "i16"    -> Signed(x, 16)
            [] kind = "i8"     -> Signed(x, 8)
            [] kind = "target" -> [addr |-> x]
            [] kind = "name"   -> IF x \in DOMAIN symbols THEN symbols[x] ELSE [id |-> x]
            [] OTHER           -> x)
  BY DEF DecodedField
<1>4. Carried(Fields[op][k], numbers[k], symbols) =
         (CASE kind = "target" -> [addr |-> v]
            [] kind = "name"   -> IF v \in DOMAIN symbols THEN symbols[v] ELSE [id |-> v]
            [] OTHER           -> v)
  BY DEF Carried
<1> HIDE DEF x, kind, v
<1>5. CASE kind = "i16"
  <2>1. x = v % 65536  BY <1>1, <1>5 DEF Unsigned
  <2>2. v \in Int /\ -32768 <= v /\ v <= 32767  BY <1>2, <1>5 DEF Operand
  <2>3. Signed(x, 16) = v  BY <2>1, <2>2, SignRecovered
  <2> QED  BY <1>3, <1>4, <1>5, <2>3
<1>6. CASE kind = "i8"
  <2>1. x = v % 256  BY <1>1, <1>6 DEF Unsigned
  <2>2. v \in Int /\ -128 <= v /\ v <= 127  BY <1>2, <1>6 DEF Operand
  <2>3. Signed(x, 8) = v  BY <2>1, <2>2, SignRecovered
  <2> QED  BY <1>3, <1>4, <1>6, <2>3
<1>7. CASE kind \notin {"i16", "i8"}
  <2>1. x = v  BY <1>1, <1>7 DEF Unsigned
  <2> QED  BY <1>3, <1>4, <1>7, <2>1
<1> QED  BY <1>5, <1>6, <1>7

\* The word of every instruction of the table whose operands fit their fields is decoded to that
\* instruction: the decoder reads back the mnemonic and every operand the encoder was given, a
\* negative immediate with its sign, a label by its entry in the symbol table.
THEOREM EncodingRoundTrips ==
  ASSUME NEW op, NEW numbers, Given(op, numbers), NEW symbols
  PROVE  Decode(Encode(op, numbers), symbols)
            = [op |-> op, f |-> [k \in DOMAIN Fields[op] |->
                                    Carried(Fields[op][k], numbers[k], symbols)]]
<1>1. MnemonicOf(Encode(op, numbers)) = op  BY OpcodeRead
<1>2. Decode(Encode(op, numbers), symbols) =
         [op |-> op, f |-> [k \in DOMAIN Fields[op] |->
                               DecodedField(Encode(op, numbers), op, k, symbols)]]
  BY <1>1 DEF Decode
<1>3. \A k \in DOMAIN Fields[op] : DecodedField(Encode(op, numbers), op, k, symbols)
                                      = Carried(Fields[op][k], numbers[k], symbols)
  BY FieldDecoded
<1> QED  BY <1>2, <1>3

(***************************************************************************)
(* Places in a program: how many of a set there are up to a place, and     *)
(* which is its n-th.                                                      *)
(***************************************************************************)
\* Every set of natural numbers that is not empty has a least one.
LEMMA Least ==
  ASSUME NEW T \in SUBSET Nat, T # {}
  PROVE  \E n \in T : \A j \in T : n <= j
<1> DEFINE R == OpToRel(<, Nat)
<1>1. IsWellFoundedOn(R, Nat)  BY NatLessThanWellFounded
<1>2. \A j, n \in Nat : j < n => <<j, n>> \in R  BY DEF OpToRel
<1> HIDE DEF R
<1>3. PICK n \in T : \A j \in T : <<j, n>> \notin R  BY <1>1, WFMin
<1>4. T \subseteq Nat  OBVIOUS
<1>5. ASSUME NEW j \in T  PROVE n <= j
  <2>1. j \in Nat /\ n \in Nat  BY <1>3, <1>4
  <2>2. ~(j < n)  BY <1>2, <1>3, <2>1, Zenon
  <2> QED  BY <2>1, <2>2
<1> QED  BY <1>5

\* Some of the first L places.
Places(K, L) == L \in Nat /\ K \in SUBSET (1 .. L)

\* Places are numbers from 1 to the length.
LEMMA PlaceType ==
  ASSUME NEW K, NEW L, Places(K, L)
  PROVE  L \in Nat /\ \A k \in K : k \in Nat /\ k \in Int /\ 1 <= k /\ k <= L
<1>1. L \in Nat /\ K \subseteq 1 .. L  BY DEF Places
<1> QED  BY <1>1

\* A set of places is finite; a count of those up to j is at most their number.
LEMMA UpToType ==
  ASSUME NEW K, NEW L, Places(K, L)
  PROVE  /\ IsFiniteSet(K) /\ Cardinality(K) \in Nat /\ Cardinality(K) <= L
         /\ \A j : /\ UpTo(K, j) \in Nat /\ UpTo(K, j) <= Cardinality(K)
                   /\ IsFiniteSet({k \in K : k <= j})
<1>1. IsFiniteSet(1 .. L) /\ Cardinality(1 .. L) = L
  BY FS_Interval DEF Places
<1>2. IsFiniteSet(K) /\ Cardinality(K) <= L
  BY <1>1, FS_Subset DEF Places
<1>3. \A j : IsFiniteSet({k \in K : k <= j}) /\ Cardinality({k \in K : k <= j}) <= Cardinality(K)
  BY <1>2, FS_Subset
<1>4. Cardinality(K) \in Nat  BY <1>2, FS_CardinalityType
<1>5. \A j : UpTo(K, j) \in Nat  BY <1>3, FS_CardinalityType DEF UpTo
<1> QED  BY <1>2, <1>3, <1>4, <1>5 DEF UpTo

\* Before the first place there is none of the set, at the last there are all.
LEMMA UpToEnds ==
  ASSUME NEW K, NEW L, Places(K, L)
  PROVE  UpTo(K, 0) = 0 /\ UpTo(K, L) = Cardinality(K)
<1>1. {k \in K : k <= 0} = {} /\ {k \in K : k <= L} = K
  <2>1. \A k \in K : ~(k <= 0) /\ k <= L  BY PlaceType
  <2> QED  BY <2>1
<1> QED  BY <1>1, FS_EmptySet DEF UpTo

\* The count grows by one at a place of the set, and nowhere else.
LEMMA UpToStep ==
  ASSUME NEW K, NEW L, Places(K, L), NEW j \in Int
  PROVE  UpTo(K, j) = UpTo(K, j - 1) + (IF j \in K THEN 1 ELSE 0)
<1> DEFINE C == {k \in K : k <= j - 1}
           D == {k \in K : k <= j}
<1>1. IsFiniteSet(C) /\ Cardinality(C) = UpTo(K, j - 1) /\ Cardinality(D) = UpTo(K, j)
  BY UpToType DEF UpTo
<1>2. j \notin C  OBVIOUS
<1>3. CASE j \in K
  <2>1. D = C \cup {j}
    <3>1. \A k \in K : k <= j <=> k <= j - 1 \/ k = j  BY PlaceType
    <3> QED  BY <3>1, <1>3
  <2> HIDE DEF C, D
  <2>2. Cardinality(C \cup {j}) = Cardinality(C) + 1  BY <1>1, <1>2, FS_AddElement
  <2> QED  BY <1>1, <1>3, <2>1, <2>2
<1>4. CASE j \notin K
  <2>1. D = C
    <3>1. \A k \in K : k <= j <=> k <= j - 1 \/ k = j  BY PlaceType
    <3> QED  BY <3>1, <1>4
  <2>2. UpTo(K, j - 1) \in Nat  BY UpToType
  <2> HIDE DEF C, D
  <2> QED  BY <1>1, <1>4, <2>1, <2>2
<1> QED  BY <1>3, <1>4

\* The count never decreases.
LEMMA UpToGrows ==
  ASSUME NEW K, NEW L, Places(K, L), NEW a \in Int, NEW b \in Int, a <= b
  PROVE  UpTo(K, a) <= UpTo(K, b) /\ (a < b /\ b \in K => UpTo(K, a) < UpTo(K, b))
<1>1. \A c, d \in Int : c <= d => UpTo(K, c) <= UpTo(K, d)
  <2>1. SUFFICES ASSUME NEW c \in Int, NEW d \in Int, c <= d  PROVE UpTo(K, c) <= UpTo(K, d)
    OBVIOUS
  <2>2. {k \in K : k <= c} \subseteq {k \in K : k <= d}
    <3>1. \A k \in K : k <= c => k <= d  BY <2>1, PlaceType
    <3> QED  BY <3>1
  <2>3. IsFiniteSet({k \in K : k <= d})  BY UpToType
  <2> QED  BY <2>2, <2>3, FS_Subset DEF UpTo
<1>2. ASSUME a < b, b \in K  PROVE UpTo(K, a) < UpTo(K, b)
  <2>1. UpTo(K, a) <= UpTo(K, b - 1)  BY <1>1, <1>2
  <2>2. UpTo(K, b) = UpTo(K, b - 1) + 1  BY <1>2, UpToStep
  <2>3. UpTo(K, a) \in Nat /\ UpTo(K, b - 1) \in Nat  BY UpToType
  <2> QED  BY <2>1, <2>2, <2>3
<1> QED  BY <1>1, <1>2

\* The n-th place is the one with n places up to it.
LEMMA NthPlace ==
  ASSUME NEW K, NEW L, Places(K, L), NEW n \in 1 .. Cardinality(K)
  PROVE  Nth(K, n) \in K /\ UpTo(K, Nth(K, n)) = n
<1> DEFINE T == {j \in Nat : UpTo(K, j) >= n}
<1>1. L \in T /\ T \subseteq Nat
  <2>1. UpTo(K, L) = Cardinality(K) /\ Cardinality(K) \in Nat  BY UpToEnds, UpToType
  <2>2. L \in Nat  BY PlaceType
  <2> QED  BY <2>1, <2>2
<1>2. PICK j \in T : \A i \in T : j <= i  BY <1>1, Least, Zenon
<1>3. j \in Nat /\ UpTo(K, j) >= n  BY <1>2
<1>4. j # 0  BY <1>3, UpToEnds
<1>5. j - 1 \notin T  BY <1>2, <1>3
<1>6. UpTo(K, j - 1) < n
  <2>1. j - 1 \in Nat  BY <1>3, <1>4
  <2>2. UpTo(K, j - 1) \in Nat  BY UpToType
  <2> QED  BY <1>5, <2>1, <2>2
<1>7. UpTo(K, j) = UpTo(K, j - 1) + (IF j \in K THEN 1 ELSE 0)  BY <1>3, UpToStep
<1>8. j \in K /\ UpTo(K, j) = n
  <2>1. UpTo(K, j - 1) \in Nat /\ UpTo(K, j) \in Nat  BY UpToType
  <2> HIDE DEF T
  <2> QED  BY <1>3, <1>6, <1>7, <2>1
<1> QED  BY <1>8 DEF Nth

\* A place of the set is the one whose number is the count up to it.
LEMMA PlaceIsNth ==
  ASSUME NEW K, NEW L, Places(K, L), NEW k \in K
  PROVE  UpTo(K, k) \in 1 .. Cardinality(K) /\ Nth(K, UpTo(K, k)) = k
<1>1. k \in Int /\ k >= 1  BY PlaceType
<1>2. UpTo(K, 0) = 0 /\ UpTo(K, 0) < UpTo(K, k)  BY <1>1, UpToGrows, UpToEnds
<1>3. UpTo(K, k) \in Nat /\ UpTo(K, k) <= Cardinality(K) /\ Cardinality(K) \in Nat  BY UpToType
<1>4. UpTo(K, k) \in 1 .. Cardinality(K)  BY <1>2, <1>3
<1> DEFINE j == Nth(K, UpTo(K, k))
<1>5. j \in K /\ UpTo(K, j) = UpTo(K, k)  BY <1>4, NthPlace
<1>6. j \in Int  BY <1>5, PlaceType
<1> HIDE DEF j
<1>7. ~(j < k) /\ ~(k < j)
  <2>1. UpTo(K, j) \in Nat  BY UpToType
  <2>2. j < k => UpTo(K, j) < UpTo(K, k)  BY <1>1, <1>6, UpToGrows
  <2>3. k < j => UpTo(K, k) < UpTo(K, j)  BY <1>1, <1>5, <1>6, UpToGrows
  <2> QED  BY <1>3, <1>5, <2>1, <2>2, <2>3
<1> QED  BY <1>1, <1>4, <1>6, <1>7 DEF j

\* All the places.
LEMMA AllPlaces ==
  ASSUME NEW L \in Nat
  PROVE  /\ Places(1 .. L, L) /\ Cardinality(1 .. L) = L
         /\ \A j \in 0 .. L : UpTo(1 .. L, j) = j
         /\ \A n \in 1 .. L : Nth(1 .. L, n) = n
<1>1. Places(1 .. L, L)  BY DEF Places
<1>2. Cardinality(1 .. L) = L  BY FS_Interval
<1>3. ASSUME NEW j \in 0 .. L  PROVE UpTo(1 .. L, j) = j
  <2>1. {k \in 1 .. L : k <= j} = 1 .. j  OBVIOUS
  <2>2. Cardinality(1 .. j) = j  BY FS_Interval
  <2> QED  BY <2>1, <2>2 DEF UpTo
<1>4. ASSUME NEW n \in 1 .. L  PROVE Nth(1 .. L, n) = n
  <2>1. Nth(1 .. L, UpTo(1 .. L, n)) = n  BY <1>1, PlaceIsNth
  <2> QED  BY <1>3, <2>1
<1> QED  BY <1>1, <1>2, <1>3, <1>4

(***************************************************************************)
(* Sequences.                                                              *)
(***************************************************************************)
(***************************************************************************)
(* Sequences.                                                              *)
(***************************************************************************)
LEMMA SequenceType ==
  ASSUME NEW s, IsSequence(s), NEW S, \A k \in 1 .. Len(s) : s[k] \in S
  PROVE  s \in Seq(S) /\ DOMAIN s = 1 .. Len(s) /\ Len(s) \in Nat
<1>1. Len(s) \in Nat /\ s = [k \in 1 .. Len(s) |-> s[k]]  BY DEF IsSequence
<1>2. s \in [1 .. Len(s) -> S]  BY <1>1
<1> QED  BY <1>1, <1>2, SeqDef

\* A member of Seq(S) is a sequence.
LEMMA IsSequenceOf ==
  ASSUME NEW S, NEW s \in Seq(S)
  PROVE  IsSequence(s) /\ DOMAIN s = 1 .. Len(s)
<1>1. Len(s) \in Nat /\ DOMAIN s = 1 .. Len(s) /\ s \in [1 .. Len(s) -> S]  BY LenProperties
<1>2. s = [k \in 1 .. Len(s) |-> s[k]]  BY <1>1
<1> QED  BY <1>1, <1>2 DEF IsSequence

\* The domain of a sequence.
LEMMA SequenceDomain ==
  ASSUME NEW s, IsSequence(s)
  PROVE  DOMAIN s = 1 .. Len(s) /\ Len(s) \in Nat
<1>1. Len(s) \in Nat /\ s = [k \in 1 .. Len(s) |-> s[k]]  BY DEF IsSequence
<1> QED  BY <1>1

\* A function on the first n numbers is a sequence of n.
LEMMA MakesSequence ==
  ASSUME NEW n \in Nat, NEW s, s = [k \in 1 .. n |-> s[k]]
  PROVE  IsSequence(s) /\ Len(s) = n
<1>1. s \in [1 .. n -> {s[k] : k \in 1 .. n}]  OBVIOUS
<1>2. s \in Seq({s[k] : k \in 1 .. n})  BY <1>1, SeqDef
<1>3. DOMAIN s = 1 .. n  BY <1>1
<1>4. Len(s) \in Nat /\ 1 .. Len(s) = 1 .. n  BY <1>2, <1>3, LenProperties
<1>5. Len(s) = n
  <2>1. Cardinality(1 .. Len(s)) = Len(s) /\ Cardinality(1 .. n) = n  BY <1>4, AllPlaces
  <2> QED  BY <1>4, <2>1
<1> QED  BY <1>5 DEF IsSequence

\* Two sequences one after the other.
LEMMA ConcatSequences ==
  ASSUME NEW s, NEW t, IsSequence(s), IsSequence(t)
  PROVE  /\ IsSequence(s \o t) /\ Len(s \o t) = Len(s) + Len(t)
         /\ \A k \in 1 .. Len(s) + Len(t) :
               (s \o t)[k] = IF k <= Len(s) THEN s[k] ELSE t[k - Len(s)]
<1> DEFINE S == {s[k] : k \in 1 .. Len(s)} \cup {t[k] : k \in 1 .. Len(t)}
<1>1. s \in Seq(S)
  <2>1. \A k \in 1 .. Len(s) : s[k] \in S  OBVIOUS
  <2> QED  BY <2>1, SequenceType
<1>2. t \in Seq(S)
  <2>1. \A k \in 1 .. Len(t) : t[k] \in S  OBVIOUS
  <2> QED  BY <2>1, SequenceType
<1> HIDE DEF S
<1> QED  BY <1>1, <1>2, ConcatProperties, IsSequenceOf

(***************************************************************************)
(* What the parser returns.                                                *)
(***************************************************************************)
\* A token, or what has replaced a reference.
Lexed(t) == IsToken(t) \/ DOMAIN t = {"num"} \/ DOMAIN t = {"bad"}
LexedLine(toks) == IsSequence(toks) /\ \A k \in 1 .. Len(toks) : Lexed(toks[k])

\* A value that a field of this kind takes.
Between(v, lo, hi) == v \in Int /\ lo <= v /\ v <= hi
InKind(kind, v) ==
    /\ kind \in Files => Between(v, 0, 15)
    /\ kind = "u8" => Between(v, 0, 255)
    /\ kind = "u16" => Between(v, 0, 65535)
    /\ kind = "i8" => Between(v, -128, 127)
    /\ kind = "i16" => Between(v, -32768, 32767)
    /\ kind \in DOMAIN Ids => v \in Ids[kind]

\* An instruction of the table, with a value in each of its fields.
Shaped(i) ==
    /\ i.op \in Mnemonics
    /\ i = [op |-> i.op, f |-> i.f]
    /\ i.f = [k \in 1 .. Len(Fields[i.op]) |-> i.f[k]]
    /\ \A k \in 1 .. Len(Fields[i.op]) : InKind(Fields[i.op][k], i.f[k])
\* What the parser has checked of two of them besides.
Checked(i) ==
    /\ i.op = "QPREPS" => i.f[2] + 2 * i.f[3] <= 8
    /\ i.op = "QXCH" => i.f[1] # i.f[2]
Proper(i) == Shaped(i) /\ Checked(i)

\* Every mnemonic has up to five fields, each of a kind that there is.
LEMMA FieldKinds ==
  ASSUME NEW op \in Mnemonics
  PROVE  /\ Len(Fields[op]) \in 0 .. 5 /\ DOMAIN Fields[op] = 1 .. Len(Fields[op])
         /\ \A k \in 1 .. Len(Fields[op]) : Fields[op][k] \in Kinds
<1>1. \A k \in DOMAIN Fields[op] : Fields[op][k] \in Kinds  BY TablesAssumption, Zenon
<1>2. Len(Fields[op]) \in 0 .. 5 /\ DOMAIN Fields[op] = 1 .. Len(Fields[op])
  BY FormatsAssumption, Zenon
<1> QED  BY <1>1, <1>2

\* No kind of identifier is a register file or a kind of number.
LEMMA KindsApart ==
  ASSUME NEW kind \in Kinds
  PROVE  /\ kind \in DOMAIN Ids => /\ kind \notin Files /\ kind # "u8" /\ kind # "i8" /\ kind # "i16"
                                   /\ kind # "u16" /\ kind # "target" /\ kind # "name"
         /\ kind \in Files => /\ kind # "u8" /\ kind # "i8" /\ kind # "i16"
                              /\ kind # "u16" /\ kind # "target" /\ kind # "name"
<1>1. DOMAIN Ids \cap (Files \cup {"u8", "i8", "i16", "u16", "target", "name"}) = {}
  BY TablesAssumption, Zenon
<1>2. kind \in Files => /\ kind # "u8" /\ kind # "i8" /\ kind # "i16"
                        /\ kind # "u16" /\ kind # "target" /\ kind # "name"
  BY DEF Files
<1> QED  BY <1>1, <1>2

\* A token is of one kind.
LEMMA LexedKinds ==
  ASSUME NEW t, Lexed(t)
  PROVE  /\ "reg" \in DOMAIN t => "num" \notin DOMAIN t /\ "id" \notin DOMAIN t /\ t.n \in Nat
         /\ "num" \in DOMAIN t => "reg" \notin DOMAIN t /\ "id" \notin DOMAIN t
         /\ "id" \in DOMAIN t => /\ "reg" \notin DOMAIN t /\ "num" \notin DOMAIN t
                                 /\ t.id[1] \in DOMAIN Ids => t.id[2] \in Ids[t.id[1]]
<1>1. CASE t \in [reg : Files, n : Nat]  BY <1>1
<1>2. CASE t \in [num : Int]  BY <1>2
<1>3. CASE DOMAIN t = {"id"} /\ t.id[1] \in DOMAIN Ids /\ t.id[2] \in Ids[t.id[1]]  BY <1>3
<1>4. CASE DOMAIN t = {"label"} \/ DOMAIN t = {"ref", "len"} \/ DOMAIN t = {"num"} \/ DOMAIN t = {"bad"}
  BY <1>4
<1> QED  BY <1>1, <1>2, <1>3, <1>4 DEF Lexed, IsToken

\* What a field accepts is a value of its kind.
LEMMA AcceptedValue ==
  ASSUME NEW kind \in Kinds, NEW t, Lexed(t), Accepts(kind, t)
  PROVE  InKind(kind, Value(t))
<1> DEFINE v == Value(t)
<1>1. /\ "reg" \in DOMAIN t => v = t.n /\ t.n \in Nat
      /\ "num" \in DOMAIN t => v = t.num
      /\ "id" \in DOMAIN t => v = t.id[2]
      /\ "id" \in DOMAIN t /\ t.id[1] \in DOMAIN Ids => t.id[2] \in Ids[t.id[1]]
  BY LexedKinds DEF Value
<1>2. \A lo, hi \in Int : IsNum(t, lo, hi) => Between(v, lo, hi)
  BY <1>1 DEF IsNum, Between
<1>3. IsReg(t) => Between(v, 0, 15)  BY <1>1 DEF IsReg, Between
<1>4. kind \in DOMAIN Ids /\ IsId(t, kind) => v \in Ids[kind]  BY <1>1 DEF IsId, Named
<1> SUFFICES InKind(kind, v)  BY DEF v
<1> HIDE DEF v
<1>5. CASE kind \in Files /\ IsReg(t)  BY <1>3, <1>5, KindsApart DEF InKind
<1>6. CASE kind = "u8" /\ IsNum(t, 0, 255)  BY <1>2, <1>6, KindsApart DEF InKind
<1>7. CASE kind = "i8" /\ IsNum(t, -128, 127)  BY <1>2, <1>7, KindsApart DEF InKind
<1>8. CASE kind = "i16" /\ IsNum(t, -32768, 32767)  BY <1>2, <1>8, KindsApart DEF InKind
<1>9. CASE kind = "u16" /\ IsNum(t, 0, 65535)  BY <1>2, <1>9, KindsApart DEF InKind
<1>10. CASE kind = "target" \/ kind = "name"  BY <1>10, KindsApart DEF InKind
<1>11. CASE kind \in DOMAIN Ids /\ IsId(t, kind)  BY <1>4, <1>11, KindsApart DEF InKind
<1> QED  BY <1>5, <1>6, <1>7, <1>8, <1>9, <1>10, <1>11 DEF Accepts

\* Operands read in the order of the fields give an instruction of the table.
LEMMA PlainShaped ==
  ASSUME NEW op \in Mnemonics, NEW toks, LexedLine(toks)
  PROVE  LET i == ParsePlain(op, toks) IN i = Bad \/ (Shaped(i) /\ i.op = op)
<1> DEFINE n == Len(Fields[op])
           f == [k \in DOMAIN Fields[op] |-> Value(toks[k])]
           i == ParsePlain(op, toks)
<1> SUFFICES i = Bad \/ (Shaped(i) /\ i.op = op)  OBVIOUS
<1>1. n \in 0 .. 5 /\ DOMAIN Fields[op] = 1 .. n /\ \A k \in 1 .. n : Fields[op][k] \in Kinds
  BY FieldKinds
<1>2. CASE Fields[op] = <<>>
  <2>1. i = [op |-> op, f |-> <<>>] /\ n = 0  BY <1>2 DEF ParsePlain
  <2>2. i.f = [k \in 1 .. n |-> i.f[k]]  BY <2>1
  <2>3. i.op = op /\ i = [op |-> i.op, f |-> i.f] /\ Len(Fields[i.op]) = 0  BY <2>1
  <2>4. \A k \in 1 .. Len(Fields[i.op]) : InKind(Fields[i.op][k], i.f[k])  BY <2>3
  <2> HIDE DEF i
  <2> QED  BY <2>1, <2>2, <2>3, <2>4 DEF Shaped
<1>3. CASE Fields[op] # <<>> /\ i # Bad
  <2>1. /\ i = [op |-> op, f |-> f] /\ Len(toks) = n
        /\ \A k \in 1 .. n : Accepts(Fields[op][k], toks[k])
    BY <1>1, <1>3 DEF ParsePlain, Instruction
  <2>2. i.op = op /\ i.f = f /\ i = [op |-> i.op, f |-> i.f]  BY <2>1
  <2>3. \A k \in 1 .. n : InKind(Fields[op][k], i.f[k])
    <3>1. SUFFICES ASSUME NEW k \in 1 .. n  PROVE InKind(Fields[op][k], i.f[k])  OBVIOUS
    <3>2. Lexed(toks[k])  BY <2>1 DEF LexedLine
    <3>3. InKind(Fields[op][k], Value(toks[k]))  BY <1>1, <2>1, <3>2, AcceptedValue
    <3> QED  BY <1>1, <2>2, <3>3
  <2>4. i.f = [k \in 1 .. n |-> i.f[k]]  BY <1>1, <2>2
  <2> HIDE DEF i, f
  <2> QED  BY <2>2, <2>3, <2>4 DEF Shaped
<1> QED  BY <1>2, <1>3

\* Tokens in another order, and after others, are tokens.
LEMMA RearrangedLexed ==
  ASSUME NEW toks, LexedLine(toks), NEW order, \A k \in 1 .. Len(toks) : order[k] \in 1 .. Len(toks)
  PROVE  LexedLine(Rearranged(toks, order))
<1> DEFINE n == Len(toks)
           r == Rearranged(toks, order)
<1>1. n \in Nat /\ DOMAIN toks = 1 .. n  BY SequenceDomain DEF LexedLine
<1>2. r = [k \in 1 .. n |-> toks[order[k]]]  BY <1>1 DEF Rearranged
<1>3. r = [k \in 1 .. n |-> r[k]]  BY <1>2
<1>4. IsSequence(r) /\ Len(r) = n  BY <1>1, <1>3, MakesSequence
<1>5. \A k \in 1 .. n : Lexed(r[k])  BY <1>2 DEF LexedLine
<1> QED  BY <1>4, <1>5 DEF LexedLine

\* Tokens after tokens are tokens.
LEMMA JoinedLexed ==
  ASSUME NEW a, NEW b, LexedLine(a), LexedLine(b)
  PROVE  LexedLine(a \o b) /\ Len(a \o b) = Len(a) + Len(b)
<1>1. Len(a) \in Nat /\ Len(b) \in Nat  BY SequenceDomain DEF LexedLine
<1>2. /\ IsSequence(a \o b) /\ Len(a \o b) = Len(a) + Len(b)
      /\ \A k \in 1 .. Len(a) + Len(b) :
            (a \o b)[k] = IF k <= Len(a) THEN a[k] ELSE b[k - Len(a)]
  BY ConcatSequences DEF LexedLine
<1>3. ASSUME NEW k \in 1 .. Len(a) + Len(b)  PROVE Lexed((a \o b)[k])
  <2>1. CASE k <= Len(a)
    <3>1. k \in 1 .. Len(a)  BY <1>1, <2>1
    <3> QED  BY <1>2, <2>1, <3>1 DEF LexedLine
  <2>2. CASE ~(k <= Len(a))
    <3>1. k - Len(a) \in 1 .. Len(b)  BY <1>1, <2>2
    <3> QED  BY <1>2, <2>2, <3>1 DEF LexedLine
  <2> QED  BY <2>1, <2>2
<1> QED  BY <1>2, <1>3 DEF LexedLine

\* A sequence over a set of tokens is a line of tokens.
LEMMA ListedLexed ==
  ASSUME NEW s, NEW S, s \in Seq(S), \A t \in S : Lexed(t)
  PROVE  LexedLine(s)
<1>1. IsSequence(s)  BY IsSequenceOf
<1>2. \A k \in 1 .. Len(s) : s[k] \in S  OBVIOUS
<1> QED  BY <1>1, <1>2 DEF LexedLine

\* A result of the parser: nothing, or a well-formed instruction.
Fine(i) == i = Bad \/ Proper(i)

\* The mnemonics that only have their fields checked.
LEMMA PlainFine ==
  ASSUME NEW op \in Mnemonics \ {"QPREPS", "QXCH"}, NEW toks, LexedLine(toks)
  PROVE  Fine(ParsePlain(op, toks))
<1> DEFINE i == ParsePlain(op, toks)
<1>1. i = Bad \/ (Shaped(i) /\ i.op = op)  BY PlainShaped
<1> HIDE DEF i
<1>2. i = Bad \/ Proper(i)  BY <1>1 DEF Proper, Checked
<1> QED  BY <1>2 DEF Fine, i

\* The kernels.
LEMMA KernelFine ==
  ASSUME NEW op \in KernelOps, NEW toks, LexedLine(toks)
  PROVE  Fine(ParseKernel(op, toks))
<1>1. CASE Len(toks) # 5  BY <1>1 DEF ParseKernel, Fine
<1>2. CASE Len(toks) = 5
  <2> DEFINE order == <<2, 3, 1, 4, 5>>
  <2>1. \A k \in 1 .. Len(toks) : order[k] \in 1 .. Len(toks)
    <3>1. \A k \in 1 .. 5 : order[k] \in 1 .. 5
      <4>1. order[1] = 2 /\ order[2] = 3 /\ order[3] = 1 /\ order[4] = 4 /\ order[5] = 5  OBVIOUS
      <4>2. \A k \in 1 .. 5 : k = 1 \/ k = 2 \/ k = 3 \/ k = 4 \/ k = 5  OBVIOUS
      <4> HIDE DEF order
      <4> QED  BY <4>1, <4>2
    <3> QED  BY <3>1, <1>2
  <2>2. LexedLine(Rearranged(toks, order))  BY <2>1, RearrangedLexed
  <2>3. op \in Mnemonics /\ op # "QPREPS" /\ op # "QXCH"
    <3>1. KernelOps \subseteq Mnemonics  BY TablesAssumption, Zenon
    <3>2. "QPREPS" \notin KernelOps /\ "QXCH" \notin KernelOps  BY DEF KernelOps
    <3> QED  BY <3>1, <3>2
  <2>4. Fine(ParsePlain(op, Rearranged(toks, order)))  BY <2>2, <2>3, PlainFine
  <2> QED  BY <1>2, <2>4 DEF ParseKernel
<1> QED  BY <1>1, <1>2

\* The reduction.
LEMMA ReduceFine ==
  ASSUME NEW toks, LexedLine(toks)
  PROVE  Fine(ParseReduce(toks))
<1>1. CASE Len(toks) # 3  BY <1>1 DEF ParseReduce, Fine
<1>2. CASE Len(toks) = 3
  <2> DEFINE order == <<2, 3, 1>>
  <2>1. \A k \in 1 .. Len(toks) : order[k] \in 1 .. Len(toks)
    <3>1. \A k \in 1 .. 3 : order[k] \in 1 .. 3
      <4>1. order[1] = 2 /\ order[2] = 3 /\ order[3] = 1  OBVIOUS
      <4>2. \A k \in 1 .. 3 : k = 1 \/ k = 2 \/ k = 3  OBVIOUS
      <4> HIDE DEF order
      <4> QED  BY <4>1, <4>2
    <3> QED  BY <3>1, <1>2
  <2>2. LexedLine(Rearranged(toks, order))  BY <2>1, RearrangedLexed
  <2>3. "HREDUCE" \in Mnemonics  BY TablesAssumption, Zenon
  <2>4. Fine(ParsePlain("HREDUCE", Rearranged(toks, order)))  BY <2>2, <2>3, PlainFine
  <2> QED  BY <1>2, <2>4 DEF ParseReduce
<1> QED  BY <1>1, <1>2

\* The observation, with its default operands.
LEMMA ObserveFine ==
  ASSUME NEW toks, LexedLine(toks)
  PROVE  Fine(ParseObserve(toks))
<1> DEFINE defaults == <<[num |-> 0], [reg |-> "R", n |-> 0], [reg |-> "R", n |-> 0]>>
           S == {[num |-> 0], [reg |-> "R", n |-> 0]}
           all == toks \o SubSeq(defaults, Len(toks) - 1, 3)
<1>1. CASE Len(toks) \notin 2 .. 5  BY <1>1 DEF ParseObserve, Fine
<1>2. CASE Len(toks) \in 2 .. 5
  <2>1. defaults \in Seq(S) /\ Len(defaults) = 3  OBVIOUS
  <2>2. \A t \in S : Lexed(t)
    <3>1. Lexed([num |-> 0])  BY DEF Lexed, IsToken
    <3>2. Lexed([reg |-> "R", n |-> 0])  BY DEF Lexed, IsToken, Files
    <3> QED  BY <3>1, <3>2
  <2> HIDE DEF defaults, S
  <2>3. SubSeq(defaults, Len(toks) - 1, 3) \in Seq(S)
    <3>1. Len(toks) - 1 \in Int /\ Len(toks) - 1 >= 1
      <4> DEFINE n == Len(toks)
      <4>1. n \in 2 .. 5  BY <1>2
      <4> HIDE DEF n
      <4>2. n - 1 \in Int /\ n - 1 >= 1  BY <4>1
      <4> QED  BY <4>2 DEF n
    <3>2. \A i \in Len(toks) - 1 .. 3 : defaults[i] \in S  BY <2>1, <3>1
    <3> QED  BY <3>1, <3>2, SubSeqProperties
  <2>4. LexedLine(SubSeq(defaults, Len(toks) - 1, 3))  BY <2>2, <2>3, ListedLexed
  <2>5. LexedLine(all)  BY <2>4, JoinedLexed
  <2>6. "QOBSERVE" \in Mnemonics  BY TablesAssumption, Zenon
  <2>7. Fine(ParsePlain("QOBSERVE", all))  BY <2>5, <2>6, PlainFine
  <2> QED  BY <1>2, <2>7 DEF ParseObserve, defaults
<1> QED  BY <1>1, <1>2

\* The preparation of a superposition, whose amplitudes are in the Z file.
LEMMA PrepsFine ==
  ASSUME NEW toks, LexedLine(toks)
  PROVE  Fine(ParsePreps(toks))
<1> DEFINE i == ParsePlain("QPREPS", toks)
<1>1. "QPREPS" \in Mnemonics  BY TablesAssumption, Zenon
<1>2. i = Bad \/ (Shaped(i) /\ i.op = "QPREPS")  BY <1>1, PlainShaped
<1>3. ParsePreps(toks) = IF i # Bad /\ i.f[2] + 2 * i.f[3] > 8 THEN Bad ELSE i  BY DEF ParsePreps
<1>4. Fields["QPREPS"] = <<"Q", "Z", "u8">>  BY TablesAssumption, Zenon
<1> HIDE DEF i
<1>5. CASE i # Bad
  <2>1. Fields[i.op][2] = "Z" /\ Fields[i.op][3] = "u8" /\ Len(Fields[i.op]) = 3  BY <1>2, <1>4, <1>5
  <2>2. InKind("Z", i.f[2]) /\ InKind("u8", i.f[3])  BY <1>2, <1>5, <2>1 DEF Shaped
  <2>3. i.f[2] \in Int /\ i.f[3] \in Int  BY <2>2 DEF InKind, Between, Files
  <2>4. ~(i.f[2] + 2 * i.f[3] > 8) => i.f[2] + 2 * i.f[3] <= 8  BY <2>3
  <2>5. ~(i.f[2] + 2 * i.f[3] > 8) => Proper(i)  BY <1>2, <1>5, <2>4 DEF Proper, Checked
  <2> QED  BY <1>3, <1>5, <2>5 DEF Fine
<1>6. CASE i = Bad  BY <1>3, <1>6 DEF Fine
<1> QED  BY <1>5, <1>6

\* What an exchange of a register with itself becomes.
LEMMA NopFine == Fine([op |-> "NOP", f |-> <<>>])
<1> DEFINE i == [op |-> "NOP", f |-> <<>>]
<1>1. "NOP" \in Mnemonics /\ Fields["NOP"] = <<>>  BY TablesAssumption, Zenon
<1>2. i.op = "NOP" /\ i = [op |-> i.op, f |-> i.f] /\ Len(Fields[i.op]) = 0  BY <1>1
<1>3. i.f = [k \in 1 .. 0 |-> i.f[k]]  OBVIOUS
<1> HIDE DEF i
<1>4. Shaped(i)
  <2>1. \A k \in 1 .. Len(Fields[i.op]) : InKind(Fields[i.op][k], i.f[k])  BY <1>2
  <2> QED  BY <1>1, <1>2, <1>3, <2>1 DEF Shaped
<1>5. Fine(i)  BY <1>2, <1>4 DEF Fine, Proper, Checked
<1> QED  BY <1>5 DEF i

\* The exchange.
LEMMA XchFine ==
  ASSUME NEW toks, LexedLine(toks)
  PROVE  Fine(ParseXch(toks))
<1> DEFINE i == ParsePlain("QXCH", toks)
<1>1. "QXCH" \in Mnemonics  BY TablesAssumption, Zenon
<1>2. i = Bad \/ (Shaped(i) /\ i.op = "QXCH")  BY <1>1, PlainShaped
<1>3. ParseXch(toks) = IF i # Bad /\ i.f[1] = i.f[2] THEN [op |-> "NOP", f |-> <<>>] ELSE i  BY DEF ParseXch
<1> HIDE DEF i
<1>4. CASE i # Bad /\ i.f[1] = i.f[2]  BY <1>3, <1>4, NopFine
<1>5. CASE i # Bad /\ i.f[1] # i.f[2]  BY <1>2, <1>3, <1>5 DEF Fine, Proper, Checked
<1>6. CASE i = Bad  BY <1>3, <1>6 DEF Fine
<1> QED  BY <1>4, <1>5, <1>6

\* The branches spelled after a condition.
LEMMA AliasFine ==
  ASSUME NEW op \in DOMAIN Aliases, NEW toks, LexedLine(toks)
  PROVE  Fine(ParseAlias(op, toks))
<1> DEFINE one == <<[num |-> Aliases[op][2]]>>
           base == Aliases[op][1]
<1>1. base \in {"JMPF", "JMPFN"} /\ {"JMPF", "JMPFN", "IINC", "IDEC"} \subseteq Mnemonics
  BY TablesAssumption, Zenon
<1>2. LexedLine(one)
  <2>1. one \in Seq({[num |-> Aliases[op][2]]})  OBVIOUS
  <2>2. Lexed([num |-> Aliases[op][2]])  BY DEF Lexed
  <2> HIDE DEF one
  <2> QED  BY <2>1, <2>2, ListedLexed
<1>3. ParseAlias(op, toks) = ParsePlain(base, one \o toks)  BY DEF ParseAlias
<1> HIDE DEF one, base
<1>4. LexedLine(one \o toks)  BY <1>2, JoinedLexed
<1>5. base \in Mnemonics \ {"QPREPS", "QXCH"}  BY <1>1
<1> QED  BY <1>3, <1>4, <1>5, PlainFine

\* Increments, with one operand or two, and the rest of the scalar mnemonics.
LEMMA IntegerFine ==
  ASSUME NEW op \in Mnemonics \ {"QPREPS", "QXCH"}, NEW toks, LexedLine(toks)
  PROVE  Fine(ParseInteger(op, toks))
<1>1. LexedLine(toks \o toks)  BY JoinedLexed
<1> QED  BY <1>1, PlainFine DEF ParseInteger

\* The quantum mnemonics together.
LEMMA QuantumFine ==
  ASSUME NEW op \in Mnemonics, NEW toks, LexedLine(toks)
  PROVE  Fine(ParseQuantum(op, toks))
<1>1. CASE op \in KernelOps
  <2>1. ParseQuantum(op, toks) = ParseKernel(op, toks)  BY <1>1 DEF ParseQuantum, KernelOps, Gates
  <2> QED  BY <1>1, <2>1, KernelFine
<1>2. CASE op = "QOBSERVE"
  <2>1. ParseQuantum(op, toks) = ParseObserve(toks)  BY <1>2 DEF ParseQuantum, KernelOps, Gates
  <2> QED  BY <2>1, ObserveFine
<1>3. CASE op = "QPREPS"
  <2>1. ParseQuantum(op, toks) = ParsePreps(toks)  BY <1>3 DEF ParseQuantum, KernelOps, Gates
  <2> QED  BY <2>1, PrepsFine
<1>4. CASE op = "QXCH"
  <2>1. ParseQuantum(op, toks) = ParseXch(toks)  BY <1>4 DEF ParseQuantum, KernelOps, Gates
  <2> QED  BY <2>1, XchFine
<1>5. CASE op \notin KernelOps /\ op \notin {"QOBSERVE", "QPREPS", "QXCH"}
  <2>1. ParseQuantum(op, toks) = ParsePlain(op, toks)  BY <1>5 DEF ParseQuantum, ParseGate
  <2> QED  BY <1>5, <2>1, PlainFine
<1> QED  BY <1>1, <1>2, <1>3, <1>4, <1>5

\* The parser returns no instruction, or one whose operands are within their fields.
LEMMA ParseFine ==
  ASSUME NEW line, line.op \in Mnemonics \cup DOMAIN Aliases, LexedLine(line.toks)
  PROVE  Fine(Parse(line))
<1> DEFINE op == line.op
           toks == line.toks
           Q == DOMAIN QuantumFields \cup DOMAIN RegisterFields
           H == DOMAIN HybridFields
           C == DOMAIN ControlFields
<1>1. /\ op \in DOMAIN Aliases => op \notin Mnemonics
      /\ H \cap Q = {} /\ C \cap Q = {} /\ C \cap H = {}
      /\ "QPREPS" \in Q /\ "QXCH" \in Q
      /\ Q \subseteq Mnemonics /\ H \cup C \subseteq Mnemonics
  BY TablesAssumption, Zenon
<1>2. Parse(line) = 
        (CASE op \in DOMAIN Aliases -> ParseAlias(op, toks)
           [] op \in Q -> ParseQuantum(op, toks)
           [] op \in H -> ParseHybrid(op, toks)
           [] op \in C -> ParseControl(op, toks)
           [] OTHER -> ParseInteger(op, toks))
  BY DEF Parse
<1>3. LexedLine(toks)  OBVIOUS
<1>4. op \in Mnemonics \cup DOMAIN Aliases  OBVIOUS
<1> SUFFICES Fine(Parse(line))  OBVIOUS
<1> HIDE DEF op, toks, Q, H, C
<1>5. CASE op \in DOMAIN Aliases
  <2>1. Parse(line) = ParseAlias(op, toks)
    <3>1. op \notin Q /\ op \notin H /\ op \notin C  BY <1>1, <1>5
    <3> QED  BY <1>2, <1>5, <3>1
  <2> QED  BY <1>3, <1>5, <2>1, AliasFine
<1>6. CASE op \notin DOMAIN Aliases /\ op \in Q
  <2>1. Parse(line) = ParseQuantum(op, toks)  BY <1>1, <1>2, <1>6
  <2> QED  BY <1>3, <1>4, <1>6, <2>1, QuantumFine
<1>7. CASE op \notin DOMAIN Aliases /\ op \in H
  <2>1. Parse(line) = ParseHybrid(op, toks)  BY <1>1, <1>2, <1>7
  <2>2. op \in Mnemonics \ {"QPREPS", "QXCH"}  BY <1>1, <1>4, <1>7
  <2> QED  BY <1>3, <2>1, <2>2, PlainFine, ReduceFine DEF ParseHybrid
<1>8. CASE op \notin DOMAIN Aliases /\ op \in C
  <2>1. Parse(line) = ParseControl(op, toks)  BY <1>1, <1>2, <1>8
  <2>2. op \in Mnemonics \ {"QPREPS", "QXCH"}  BY <1>1, <1>4, <1>8
  <2> QED  BY <1>3, <2>1, <2>2, PlainFine DEF ParseControl
<1>9. CASE op \notin DOMAIN Aliases /\ op \notin Q \cup H \cup C
  <2>1. Parse(line) = ParseInteger(op, toks)  BY <1>2, <1>9
  <2>2. op \in Mnemonics \ {"QPREPS", "QXCH"}  BY <1>1, <1>4, <1>9
  <2> QED  BY <1>3, <2>1, <2>2, IntegerFine
<1> QED  BY <1>5, <1>6, <1>7, <1>8, <1>9

\* What replaces a reference is lexed.
LEMMA SubstituteLexed ==
  ASSUME NEW labels, NEW t, Lexed(t)
  PROVE  Lexed(SubstituteIn(labels, t))
<1> DEFINE begins == {n \in DOMAIN labels : IsPrefix(n, t.ref)}
           label == CHOOSE n \in begins : \A j \in begins : Len(j) <= Len(n)
           rest == SubSeq(t.ref, Len(label) + 1, Len(t.ref))
           u == IF t.len THEN labels[label].count ELSE labels[label].base
           w == FoldLeft(LAMBDA v, c : 10 * v + c, labels[label].base, rest)
<1>1. Substitute(labels, t) =
        (CASE begins = {} -> t
           [] begins # {} /\ rest = <<>> -> [num |-> u]
           [] begins # {} /\ rest # <<>> /\ (t.len \/ -1 \in Range(rest)) -> [bad |-> TRUE]
           [] OTHER -> [num |-> w])
  BY DEF Substitute
<1> HIDE DEF begins, label, rest, u, w
<1>2. \/ Substitute(labels, t) = t \/ Substitute(labels, t) = [num |-> u]
      \/ Substitute(labels, t) = [num |-> w] \/ Substitute(labels, t) = [bad |-> TRUE]
  BY <1>1
<1>3. Lexed([num |-> u]) /\ Lexed([num |-> w]) /\ Lexed([bad |-> TRUE])  BY DEF Lexed
<1> QED  BY <1>2, <1>3 DEF SubstituteIn

\* One more step of Chosen.
LEMMA ChosenType ==
  ASSUME NEW s, IsSequence(s), NEW K \in SUBSET (1 .. Len(s))
  PROVE  /\ Places(K, Len(s)) /\ Cardinality(K) \in Nat
         /\ IsSequence(Chosen(s, K)) /\ Len(Chosen(s, K)) = Cardinality(K)
         /\ DOMAIN Chosen(s, K) = 1 .. Cardinality(K)
         /\ \A n \in 1 .. Cardinality(K) : Nth(K, n) \in K /\ Chosen(s, K)[n] = s[Nth(K, n)]
<1> DEFINE c == Chosen(s, K)
           n == Cardinality(K)
<1>1. Places(K, Len(s))  BY SequenceDomain DEF Places
<1>2. n \in Nat  BY <1>1, UpToType
<1>3. c = [i \in 1 .. n |-> s[Nth(K, i)]]  BY DEF Chosen
<1>4. c = [i \in 1 .. n |-> c[i]]  BY <1>3
<1> HIDE DEF n
<1>5. IsSequence(c) /\ Len(c) = n  BY <1>2, <1>4, MakesSequence
<1>6. \A i \in 1 .. n : c[i] = s[Nth(K, i)]  BY <1>3
<1>7. \A i \in 1 .. n : Nth(K, i) \in K  BY <1>1, NthPlace DEF n
<1>8. DOMAIN c = 1 .. n  BY <1>3
<1> HIDE DEF c
<1> QED  BY <1>1, <1>2, <1>5, <1>6, <1>7, <1>8 DEF c, n

ProperCode(c) == IsSequence(c) /\ \A k \in 1 .. Len(c) : Proper(c[k])

\* A program that is not rejected has well-formed instructions.
LEMMA ParsedProper ==
  ASSUME NEW s \in Sources, ParseProgram(s) # Missing
  PROVE  ProperCode(ParseProgram(s).code) /\ ParseProgram(s).private \in Nat
<1> DEFINE data == ParseSection(s.data)
           shared == ParseSection(s.shared)
           code == [k \in DOMAIN s.code |-> Parse(Substituted(s.code[k], data, shared))]
           K == {k \in DOMAIN code : code[k].op # "NOP"}
           p == ParseProgram(s)
<1>1. p = IF ~PragmasOk(s) \/ ~data.ok \/ ~shared.ok \/ Bad \in Range(code) THEN Missing
          ELSE [code |-> Chosen(code, K),
                data |-> data.cells, shared |-> shared.cells, private |-> s.private,
                qubits |-> s.qubits, threads |-> s.threads]
  BY Zenon DEF ParseProgram
<1>2. IsSequence(s.code) /\ (\A k \in DOMAIN s.code : IsLine(s.code[k])) /\ s.private \in Nat
  BY SourcesAssumption
<1>3. DOMAIN s.code = 1 .. Len(s.code) /\ Len(s.code) \in Nat  BY <1>2, SequenceDomain
<1> DEFINE line(k) == Substituted(s.code[k], data, shared)
<1>4. \A k \in 1 .. Len(s.code) : code[k] = Parse(line(k))  BY <1>3
<1>5. code = [k \in 1 .. Len(s.code) |-> code[k]]  BY <1>3
<1> HIDE DEF data, shared
<1>6. ASSUME NEW k \in 1 .. Len(s.code)  PROVE Fine(code[k])
  <2> DEFINE l == s.code[k]
             r == [j \in DOMAIN l.toks |-> SubstituteIn(shared.labels, SubstituteIn(data.labels, l.toks[j]))]
  <2>1. IsLine(l)  BY <1>2, <1>3
  <2>2. line(k) = [l EXCEPT !.toks = r]  BY DEF Substituted
  <2>3. /\ DOMAIN l = {"op", "toks"} /\ l.op \in Mnemonics \cup DOMAIN Aliases
        /\ IsSequence(l.toks) /\ \A j \in DOMAIN l.toks : IsToken(l.toks[j])
    BY <2>1 DEF IsLine
  <2>4. DOMAIN l.toks = 1 .. Len(l.toks) /\ Len(l.toks) \in Nat  BY <2>3, SequenceDomain
  <2>5. r = [j \in 1 .. Len(l.toks) |-> r[j]]  BY <2>4
  <2>6. IsSequence(r) /\ Len(r) = Len(l.toks)
    <3> DEFINE n == Len(l.toks)
    <3>1. n \in Nat /\ r = [j \in 1 .. n |-> r[j]]  BY <2>4, <2>5
    <3> HIDE DEF n, r, l
    <3>2. IsSequence(r) /\ Len(r) = n  BY <3>1, MakesSequence
    <3> QED  BY <3>2 DEF n
  <2>7. \A j \in 1 .. Len(r) : Lexed(r[j])
    <3>1. SUFFICES ASSUME NEW j \in 1 .. Len(l.toks)  PROVE Lexed(r[j])  BY <2>6
    <3>2. Lexed(l.toks[j])  BY <2>3, <2>4 DEF Lexed
    <3>3. Lexed(SubstituteIn(shared.labels, SubstituteIn(data.labels, l.toks[j])))
      BY <3>2, SubstituteLexed
    <3> QED  BY <2>4, <3>3
  <2> HIDE DEF r, l
  <2>8. line(k).op = l.op /\ line(k).toks = r  BY <2>2, <2>3
  <2>9. LexedLine(line(k).toks) /\ line(k).op \in Mnemonics \cup DOMAIN Aliases
    BY <2>3, <2>6, <2>7, <2>8 DEF LexedLine
  <2> HIDE DEF line
  <2>10. Fine(Parse(line(k)))  BY <2>9, ParseFine
  <2> QED  BY <2>10, <1>4
<1> HIDE DEF line
<1>7. IsSequence(code) /\ Len(code) = Len(s.code) /\ DOMAIN code = 1 .. Len(code)
  <2> DEFINE n == Len(s.code)
  <2>1. n \in Nat /\ code = [k \in 1 .. n |-> code[k]]  BY <1>3, <1>5
  <2> HIDE DEF n, code
  <2>2. IsSequence(code) /\ Len(code) = n  BY <2>1, MakesSequence
  <2> QED  BY <2>2, SequenceDomain DEF n
<1> HIDE DEF code
<1>8. p.code = Chosen(code, K) /\ p.private = s.private /\ Bad \notin Range(code)
  BY <1>1
<1>9. \A k \in 1 .. Len(code) : Proper(code[k])
  BY <1>6, <1>7, <1>8 DEF Range, Fine
<1>10. K \in SUBSET (1 .. Len(code))  BY <1>7
<1> HIDE DEF p, K
<1>11. /\ IsSequence(Chosen(code, K)) /\ Len(Chosen(code, K)) = Cardinality(K)
       /\ \A n \in 1 .. Cardinality(K) : Nth(K, n) \in K /\ Chosen(code, K)[n] = code[Nth(K, n)]
  BY <1>7, <1>10, ChosenType
<1>12. ProperCode(p.code)
  <2>1. ASSUME NEW n \in 1 .. Cardinality(K)  PROVE Proper(Chosen(code, K)[n])
    BY <1>9, <1>10, <1>11
  <2> QED  BY <1>8, <1>11, <2>1 DEF ProperCode
<1> QED  BY <1>2, <1>8, <1>12 DEF p

(***************************************************************************)
(* What the assembler makes of a program.                                  *)
(***************************************************************************)
\* An assembly that succeeds.
Assembles(p, strip) ==
    /\ ProperCode(p.code) /\ p.private \in Nat
    /\ ~Duplicated(p.code) /\ Cardinality(LabelPlaces(p.code)) <= MaxLabels
    /\ \A k \in 1 .. Len(p.code) : Encodable(p.code, k, strip)

\* An assembly that is not rejected satisfies every check of the assembler.
LEMMA AssembledFacts ==
  ASSUME NEW p, NEW strip \in BOOLEAN, ProperCode(p.code), p.private \in Nat, Assembled(p, strip) # Missing
  PROVE  /\ Assembles(p, strip)
         /\ Assembled(p, strip) =
              [words |-> Words(p.code, strip), symbols |-> Symbols(p.code),
               entry |-> EntryPoint(p.code, strip), data |-> p.data, shared |-> p.shared,
               private |-> p.private, qubits |-> p.qubits, threads |-> p.threads]
<1> DEFINE r == [words |-> Words(p.code, strip), symbols |-> Symbols(p.code),
               entry |-> EntryPoint(p.code, strip), data |-> p.data, shared |-> p.shared,
               private |-> p.private, qubits |-> p.qubits, threads |-> p.threads]
           d == Duplicated(p.code)
           c == Cardinality(LabelPlaces(p.code))
           e == \E k \in DOMAIN p.code : ~Encodable(p.code, k, strip)
<1>1. Assembled(p, strip) = IF d \/ c > MaxLabels \/ e THEN Missing ELSE r
  BY Zenon DEF Assembled
<1>2. DOMAIN p.code = 1 .. Len(p.code) /\ Len(p.code) \in Nat  BY SequenceDomain DEF ProperCode
<1>3. c \in Nat
  <2>1. LabelPlaces(p.code) \in SUBSET (1 .. Len(p.code))  BY <1>2 DEF LabelPlaces
  <2>2. Places(LabelPlaces(p.code), Len(p.code))  BY <1>2, <2>1 DEF Places
  <2> QED  BY <2>2, UpToType
<1>4. MaxLabels \in Int  BY LabelsAssumption
<1> HIDE DEF r, d, c, e
<1>5. ~d /\ ~(c > MaxLabels) /\ ~e /\ Assembled(p, strip) = r  BY <1>1
<1>6. c <= MaxLabels  BY <1>3, <1>4, <1>5
<1> QED  BY <1>2, <1>5, <1>6 DEF Assembles, c, d, e, r

\* The labels and the steps of a program share its places out.
LEMMA PlacesOf ==
  ASSUME NEW code, IsSequence(code)
  PROVE  /\ Places(LabelPlaces(code), Len(code)) /\ Places(StepPlaces(code), Len(code))
         /\ \A j \in 0 .. Len(code) : UpTo(LabelPlaces(code), j) + UpTo(StepPlaces(code), j) = j
<1> DEFINE L == LabelPlaces(code)
           S == StepPlaces(code)
           n == Len(code)
<1>1. DOMAIN code = 1 .. n /\ n \in Nat  BY SequenceDomain
<1>2. L \in SUBSET (1 .. n) /\ S \in SUBSET (1 .. n) /\ L \cup S = 1 .. n /\ L \cap S = {}
  BY <1>1 DEF LabelPlaces, StepPlaces
<1>3. Places(L, n) /\ Places(S, n)  BY <1>1, <1>2 DEF Places
<1> HIDE DEF L, S, n
<1>4. ASSUME NEW j \in 0 .. n  PROVE UpTo(L, j) + UpTo(S, j) = j
  <2> DEFINE C == {k \in L : k <= j}
             D == {k \in S : k <= j}
  <2>1. IsFiniteSet(C) /\ IsFiniteSet(D) /\ Cardinality(C) \in Nat /\ Cardinality(D) \in Nat
    BY <1>3, UpToType, FS_CardinalityType
  <2>2. C \cup D = 1 .. j
    <3>1. \A k : k \in C \cup D <=> k \in 1 .. n /\ k <= j
      <4>1. \A k : k \in L \cup S <=> k \in 1 .. n  BY <1>2, Zenon
      <4>2. \A k : k \in C \cup D <=> k \in L \cup S /\ k <= j  OBVIOUS
      <4> HIDE DEF C, D
      <4> QED  BY <4>1, <4>2
    <3>2. \A k : k \in 1 .. n /\ k <= j <=> k \in 1 .. j  BY <1>1
    <3> QED  BY <3>1, <3>2
  <2>3. C \cap D = {}  BY <1>2
  <2> HIDE DEF C, D
  <2>4. Cardinality(C \cup D) = Cardinality(C) + Cardinality(D) - Cardinality(C \cap D)
    BY <2>1, FS_Union
  <2>5. Cardinality(1 .. j) = j  BY AllPlaces
  <2>6. Cardinality(C \cap D) = 0  BY <2>3, FS_EmptySet
  <2>7. Cardinality(C \cup D) = j  BY <2>2, <2>5, Zenon
  <2>8. Cardinality(C) + Cardinality(D) = j  BY <2>1, <2>4, <2>6, <2>7
  <2> QED  BY <2>8 DEF UpTo, C, D
<1> QED  BY <1>3, <1>4 DEF L, S, n

\* A branch names one label, its last field and only that.
LEMMA JumpFields ==
  ASSUME NEW i, Shaped(i)
  PROVE  /\ Len(Fields[i.op]) \in 0 .. 5 /\ DOMAIN Fields[i.op] = 1 .. Len(Fields[i.op])
         /\ DOMAIN i.f = 1 .. Len(Fields[i.op]) /\ Len(i.f) = Len(Fields[i.op]) /\ IsSequence(i.f)
         /\ i.op \in Jumps => Len(Fields[i.op]) >= 1 /\ Target(i) = i.f[Len(Fields[i.op])]
         /\ \A k \in 1 .. Len(Fields[i.op]) :
               Fields[i.op][k] = "target" <=> i.op \in Jumps /\ k = Len(Fields[i.op])
         /\ i.op # "LABEL" => \A k \in 1 .. Len(Fields[i.op]) : Fields[i.op][k] # "name"
         /\ i.op = "LABEL" => Len(Fields[i.op]) = 1 /\ Fields[i.op][1] = "name"
         /\ "LABEL" \notin Jumps
<1> DEFINE n == Len(Fields[i.op])
<1>1. i.op \in Mnemonics /\ i.f = [k \in 1 .. n |-> i.f[k]]  BY DEF Shaped
<1>2. n \in 0 .. 5 /\ DOMAIN Fields[i.op] = 1 .. n  BY <1>1, FieldKinds
<1>3. /\ \A op \in Jumps : /\ Len(Fields[op]) >= 1
                           /\ \A k \in DOMAIN Fields[op] :
                                 Fields[op][k] = "target" <=> k = Len(Fields[op])
      /\ \A op \in Mnemonics \ {"LABEL"} : \A k \in DOMAIN Fields[op] : Fields[op][k] # "name"
      /\ Fields["LABEL"] = <<"name">>
  BY TablesAssumption, Zenon
<1>4. DOMAIN i.f = 1 .. n  BY <1>1
<1>5. IsSequence(i.f) /\ Len(i.f) = n
  <2> DEFINE f == i.f
  <2>1. n \in Nat /\ f = [k \in 1 .. n |-> f[k]]  BY <1>1, <1>2
  <2> HIDE DEF n, f
  <2>2. IsSequence(f) /\ Len(f) = n  BY <2>1, MakesSequence
  <2> QED  BY <2>2 DEF f
<1>6. Target(i) = i.f[n]  BY <1>5 DEF Target, Last
<1>7. i.op \notin Jumps => \A k \in 1 .. n : Fields[i.op][k] # "target"
  BY <1>1, <1>2 DEF Jumps, Range
<1>8. "LABEL" \notin Jumps
  <2>1. \A k \in DOMAIN Fields["LABEL"] : Fields["LABEL"][k] # "target"
    <3>1. \A k \in DOMAIN <<"name">> : <<"name">>[k] # "target"  OBVIOUS
    <3> QED  BY <1>3, <3>1
  <2> QED  BY <2>1 DEF Jumps, Range
<1> HIDE DEF n
<1>9. i.op \in Jumps => n >= 1 /\ \A k \in 1 .. n : Fields[i.op][k] = "target" <=> k = n
  BY <1>2, <1>3 DEF n
<1>10. i.op # "LABEL" => \A k \in 1 .. n : Fields[i.op][k] # "name"  BY <1>1, <1>2, <1>3
<1>11. i.op = "LABEL" => n = 1 /\ Fields[i.op][1] = "name"
  <2>1. Len(<<"name">>) = 1 /\ <<"name">>[1] = "name"  OBVIOUS
  <2>2. Fields["LABEL"] = <<"name">>  BY <1>3
  <2>3. Len(Fields["LABEL"]) = 1 /\ Fields["LABEL"][1] = "name"  BY <2>1, <2>2, Zenon
  <2> QED  BY <2>3 DEF n
<1> QED  BY <1>2, <1>4, <1>5, <1>6, <1>7, <1>8, <1>9, <1>10, <1>11 DEF n

\* Where the label of a name stands.
Home(code, name) == CHOOSE k \in LabelIndexes(code, name) : TRUE

\* A label that is defined has one place, when none is defined twice.
LEMMA HomeOf ==
  ASSUME NEW code, ProperCode(code), ~Duplicated(code), NEW name, LabelIndexes(code, name) # {}
  PROVE  /\ Home(code, name) \in LabelPlaces(code) /\ Home(code, name) \in 1 .. Len(code)
         /\ code[Home(code, name)].f[1] = name
         /\ LabelIndexes(code, name) = {Home(code, name)} /\ Max(LabelIndexes(code, name)) = Home(code, name)
<1> DEFINE I == LabelIndexes(code, name)
           h == Home(code, name)
<1>1. DOMAIN code = 1 .. Len(code)  BY SequenceDomain DEF ProperCode
<1>2. h \in I  BY DEF Home
<1>3. code[h].op = "LABEL" /\ code[h].f[1] = name /\ h \in 1 .. Len(code)
  BY <1>1, <1>2 DEF LabelIndexes
<1>4. h \in LabelPlaces(code)  BY <1>1, <1>3 DEF LabelPlaces
<1>5. I = {h}
  <2>1. LabelIndexes(code, code[h].f[1]) = {h}  BY <1>1, <1>3 DEF Duplicated
  <2> QED  BY <2>1, <1>3
<1>6. Max(I) = h
  <2>1. h \in Int  BY <1>3
  <2> HIDE DEF h
  <2>2. Max({h}) = h  BY <2>1 DEF Max
  <2> QED  BY <2>2, <1>5
<1> QED  BY <1>3, <1>4, <1>5, <1>6

\* The address of a label: without the label words, how many steps precede it.
LEMMA AddressOfHome ==
  ASSUME NEW code, ProperCode(code), NEW name, NEW strip \in BOOLEAN,
         Home(code, name) \in 1 .. Len(code)
  PROVE  /\ AddressOf(code, name, strip) \in Nat
         /\ AddressOf(code, name, strip) = IF strip THEN UpTo(StepPlaces(code), Home(code, name) - 1)
                                                    ELSE Home(code, name) - 1
<1> DEFINE h == Home(code, name)
<1>1. AddressOf(code, name, strip) = IF strip THEN h - 1 - LabelsBefore(code, h) ELSE h - 1
  BY DEF AddressOf, Home
<1>2. LabelsBefore(code, h) = UpTo(LabelPlaces(code), h - 1)  BY DEF LabelsBefore
<1>3. Len(code) \in Nat  BY SequenceDomain DEF ProperCode
<1>4. h - 1 \in 0 .. Len(code) /\ h - 1 \in Nat  BY <1>3
<1> HIDE DEF h
<1>5. UpTo(LabelPlaces(code), h - 1) + UpTo(StepPlaces(code), h - 1) = h - 1
  BY <1>4, PlacesOf DEF ProperCode
<1>6. UpTo(LabelPlaces(code), h - 1) \in Nat /\ UpTo(StepPlaces(code), h - 1) \in Nat
  BY PlacesOf, UpToType DEF ProperCode
<1>7. h - 1 - UpTo(LabelPlaces(code), h - 1) = UpTo(StepPlaces(code), h - 1)  BY <1>4, <1>5, <1>6
<1> QED  BY <1>1, <1>2, <1>4, <1>6, <1>7 DEF h

\* The numbers of an instruction that is assembled.
LEMMA NumbersOf ==
  ASSUME NEW p, NEW strip \in BOOLEAN, Assembles(p, strip), NEW k \in 1 .. Len(p.code)
  PROVE  LET op == p.code[k].op
             f == p.code[k].f
             numbers == Numbers(p.code, k, strip)
         IN  /\ DOMAIN numbers = 1 .. Len(Fields[op])
             /\ \A j \in 1 .. Len(Fields[op]) :
                   /\ Fields[op][j] = "target" => numbers[j] = AddressOf(p.code, f[j], strip)
                   /\ Fields[op][j] = "name" => numbers[j] = LabelsBefore(p.code, k)
                   /\ Fields[op][j] # "target" /\ Fields[op][j] # "name" => numbers[j] = f[j]
<1> DEFINE i == p.code[k]
           numbers == Numbers(p.code, k, strip)
<1>1. Shaped(i)  BY DEF Assembles, ProperCode, Proper
<1>2. DOMAIN i.f = 1 .. Len(Fields[i.op])  BY <1>1, JumpFields
<1>3. numbers = [n \in DOMAIN i.f |->
            CASE Fields[i.op][n] = "target" -> AddressOf(p.code, i.f[n], strip)
              [] Fields[i.op][n] = "name" -> LabelsBefore(p.code, k)
              [] OTHER -> i.f[n]]
  BY DEF Numbers
<1> HIDE DEF i, numbers
<1>4. \A j \in 1 .. Len(Fields[i.op]) :
         numbers[j] = CASE Fields[i.op][j] = "target" -> AddressOf(p.code, i.f[j], strip)
                        [] Fields[i.op][j] = "name" -> LabelsBefore(p.code, k)
                        [] OTHER -> i.f[j]
  BY <1>2, <1>3
<1>5. DOMAIN numbers = 1 .. Len(Fields[i.op])  BY <1>2, <1>3
<1>6. \A j \in 1 .. Len(Fields[i.op]) :
         /\ Fields[i.op][j] = "target" => numbers[j] = AddressOf(p.code, i.f[j], strip)
         /\ Fields[i.op][j] = "name" => numbers[j] = LabelsBefore(p.code, k)
         /\ Fields[i.op][j] # "target" /\ Fields[i.op][j] # "name" => numbers[j] = i.f[j]
  BY <1>4
<1> QED  BY <1>5, <1>6 DEF i, numbers

\* Every operand that a field takes is a number it carries.
LEMMA KindOperand ==
  ASSUME NEW kind \in Kinds, NEW v, InKind(kind, v), kind # "target", kind # "name"
  PROVE  Operand(kind, v)
<1>1. kind \in Files \cup {"u8", "i8", "i16", "u16"} \cup DOMAIN Ids  BY DEF Kinds
<1>2. kind \in DOMAIN Ids => kind # "i8" /\ kind # "i16"  BY KindsApart
<1>3. \A id \in DOMAIN Ids : \A u \in Ids[id] : u \in Nat  BY TablesAssumption, Zenon
<1>4. CASE kind \in Files
  <2>1. v \in Nat  BY <1>4 DEF InKind, Between
  <2> QED  BY <1>4, <2>1 DEF Operand, Files
<1>5. CASE kind = "u8" \/ kind = "u16"  BY <1>5 DEF InKind, Between, Operand
<1>6. CASE kind = "i8"  BY <1>6 DEF InKind, Between, Operand
<1>7. CASE kind = "i16"  BY <1>7 DEF InKind, Between, Operand
<1>8. CASE kind \in DOMAIN Ids
  <2>1. v \in Nat  BY <1>3, <1>8 DEF InKind
  <2> QED  BY <1>2, <1>8, <2>1 DEF Operand
<1> QED  BY <1>1, <1>4, <1>5, <1>6, <1>7, <1>8

\* The assembler gives the encoder numbers that fit their fields.
LEMMA NumbersGiven ==
  ASSUME NEW p, NEW strip \in BOOLEAN, Assembles(p, strip), NEW k \in 1 .. Len(p.code)
  PROVE  /\ Given(p.code[k].op, Numbers(p.code, k, strip))
         /\ p.code[k].op \in Jumps =>
               LET name == Target(p.code[k])
               IN  /\ LabelIndexes(p.code, name) # {}
                   /\ Numbers(p.code, k, strip)[Len(Fields[p.code[k].op])]
                         = AddressOf(p.code, name, strip)
<1> DEFINE code == p.code
           i == code[k]
           op == i.op
           numbers == Numbers(code, k, strip)
           n == Len(Fields[op])
<1>1. ProperCode(code) /\ Shaped(i) /\ ~Duplicated(code) /\ Encodable(code, k, strip)
  BY DEF Assembles, ProperCode, Proper
<1>2. DOMAIN numbers = DOMAIN Fields[op]
  <2>1. DOMAIN numbers = DOMAIN i.f  BY DEF Numbers
  <2>2. DOMAIN i.f = 1 .. n /\ DOMAIN Fields[op] = 1 .. n  BY <1>1, JumpFields
  <2> HIDE DEF numbers, n, i, op
  <2> QED  BY <2>1, <2>2
<1>3. \A j \in 1 .. n :
         /\ Fields[op][j] = "target" => numbers[j] = AddressOf(code, i.f[j], strip)
         /\ Fields[op][j] = "name" => numbers[j] = LabelsBefore(code, k)
         /\ Fields[op][j] # "target" /\ Fields[op][j] # "name" => numbers[j] = i.f[j]
  BY NumbersOf
<1>4. op \in Mnemonics /\ \A j \in 1 .. n : InKind(Fields[op][j], i.f[j])  BY <1>1 DEF Shaped
<1>5. \A j \in 1 .. n : Fields[op][j] \in Kinds  BY <1>4, FieldKinds
<1>6. /\ DOMAIN Fields[op] = 1 .. n
      /\ op \in Jumps => n \in 1 .. n /\ Target(i) = i.f[n] /\ Fields[op][n] = "target"
      /\ \A j \in 1 .. n : Fields[op][j] = "target" => op \in Jumps /\ i.f[j] = Target(i)
  <2>1. /\ DOMAIN Fields[op] = 1 .. n /\ n \in 0 .. 5
        /\ op \in Jumps => n >= 1 /\ Target(i) = i.f[n]
        /\ \A j \in 1 .. n : Fields[op][j] = "target" <=> op \in Jumps /\ j = n
    BY <1>1, JumpFields
  <2> HIDE DEF n, op, i
  <2> QED  BY <2>1
<1>7. op \in Jumps => LabelIndexes(code, Target(i)) # {}  BY <1>1 DEF Encodable, Defined
<1>8. Fits(op, numbers)  BY <1>1 DEF Encodable
<1>9. LabelsBefore(code, k) \in Nat
  BY <1>1, PlacesOf, UpToType DEF LabelsBefore, ProperCode
<1>10. op \in Jumps => AddressOf(code, Target(i), strip) \in Nat
  BY <1>1, <1>7, HomeOf, AddressOfHome
<1> HIDE DEF numbers, n, op, i, code
<1>11. \A j \in 1 .. n : Operand(Fields[op][j], numbers[j])
  <2>1. SUFFICES ASSUME NEW j \in 1 .. n  PROVE Operand(Fields[op][j], numbers[j])  OBVIOUS
  <2>2. CASE Fields[op][j] = "target"
    <3>1. numbers[j] \in Nat  BY <1>3, <1>6, <1>10, <2>2
    <3> QED  BY <2>2, <3>1 DEF Operand
  <2>3. CASE Fields[op][j] = "name"
    <3>1. numbers[j] \in Nat  BY <1>3, <1>9, <2>3
    <3> QED  BY <2>3, <3>1 DEF Operand
  <2>4. CASE Fields[op][j] # "target" /\ Fields[op][j] # "name"
    BY <1>3, <1>4, <1>5, <2>4, KindOperand
  <2> QED  BY <2>2, <2>3, <2>4
<1>12. Given(op, numbers)  BY <1>2, <1>4, <1>6, <1>8, <1>11 DEF Given, Operands
<1>13. op \in Jumps => numbers[n] = AddressOf(code, Target(i), strip)  BY <1>3, <1>6
<1> QED  BY <1>7, <1>12, <1>13 DEF code, numbers, op, i, n

(***************************************************************************)
(* What the decoder makes of the words.                                    *)
(***************************************************************************)
\* What the decoder makes of the instruction at a place of the program.
DecodedFrom(code, k, strip, symbols, i) ==
    LET op == code[k].op
    IN  /\ i.op = op /\ i = [op |-> i.op, f |-> i.f]
        /\ i.f = [j \in 1 .. Len(Fields[op]) |-> i.f[j]]
        /\ \A j \in 1 .. Len(Fields[op]) :
              Fields[op][j] # "target" /\ Fields[op][j] # "name" => i.f[j] = code[k].f[j]
        /\ op \in Jumps => i.f[Len(Fields[op])] = [addr |-> AddressOf(code, Target(code[k]), strip)]
        /\ op = "LABEL" => i.f[1] = IF LabelsBefore(code, k) \in DOMAIN symbols
                                    THEN symbols[LabelsBefore(code, k)] ELSE [id |-> LabelsBefore(code, k)]

\* A word of the program decodes to its instruction, with addresses for targets.
LEMMA WordDecoded ==
  ASSUME NEW p, NEW strip \in BOOLEAN, Assembles(p, strip), NEW k \in 1 .. Len(p.code), NEW symbols
  PROVE  DecodedFrom(p.code, k, strip, symbols,
                     Decode(Encode(p.code[k].op, Numbers(p.code, k, strip)), symbols))
<1> DEFINE code == p.code
           op == code[k].op
           f == code[k].f
           numbers == Numbers(code, k, strip)
           n == Len(Fields[op])
           d == Decode(Encode(op, numbers), symbols)
<1>1. /\ Given(op, numbers)
      /\ op \in Jumps => numbers[n] = AddressOf(code, Target(code[k]), strip)
  BY NumbersGiven
<1>2. d = [op |-> op, f |-> [j \in DOMAIN Fields[op] |-> Carried(Fields[op][j], numbers[j], symbols)]]
  BY <1>1, EncodingRoundTrips
<1>3. \A j \in 1 .. n :
         /\ Fields[op][j] = "name" => numbers[j] = LabelsBefore(code, k)
         /\ Fields[op][j] # "target" /\ Fields[op][j] # "name" => numbers[j] = f[j]
  BY NumbersOf
<1>4. Shaped(code[k])  BY DEF Assembles, ProperCode, Proper
<1>5. /\ DOMAIN Fields[op] = 1 .. n /\ n \in 0 .. 5
      /\ op \in Jumps => n >= 1 /\ Fields[op][n] = "target"
      /\ op = "LABEL" => n = 1 /\ Fields[op][1] = "name"
  <2>1. /\ DOMAIN Fields[op] = 1 .. n /\ n \in 0 .. 5
        /\ op \in Jumps => n >= 1
        /\ \A j \in 1 .. n : Fields[op][j] = "target" <=> op \in Jumps /\ j = n
        /\ op = "LABEL" => n = 1 /\ Fields[op][1] = "name"
    BY <1>4, JumpFields
  <2> HIDE DEF n, op
  <2> QED  BY <2>1
<1> HIDE DEF d, n, numbers
<1>6. d.op = op /\ d = [op |-> d.op, f |-> d.f]  BY <1>2
<1>7. d.f = [j \in 1 .. n |-> Carried(Fields[op][j], numbers[j], symbols)]  BY <1>2, <1>5
<1>8. d.f = [j \in 1 .. n |-> d.f[j]]  BY <1>7
<1>9. \A j \in 1 .. n : d.f[j] = Carried(Fields[op][j], numbers[j], symbols)  BY <1>7
<1>10. ASSUME NEW j \in 1 .. n, Fields[op][j] # "target" /\ Fields[op][j] # "name"
       PROVE  d.f[j] = f[j]
  BY <1>3, <1>9, <1>10 DEF Carried
<1>11. op \in Jumps => d.f[n] = [addr |-> AddressOf(code, Target(code[k]), strip)]
  <2> HAVE op \in Jumps
  <2>1. n \in 1 .. n  BY <1>5
  <2>2. d.f[n] = Carried("target", numbers[n], symbols)  BY <1>5, <1>9, <2>1
  <2>3. \A v : Carried("target", v, symbols) = [addr |-> v]  BY DEF Carried
  <2> QED  BY <1>1, <2>2, <2>3
<1>12. op = "LABEL" => d.f[1] = IF LabelsBefore(code, k) \in DOMAIN symbols
                                THEN symbols[LabelsBefore(code, k)] ELSE [id |-> LabelsBefore(code, k)]
  <2> HAVE op = "LABEL"
  <2>1. 1 \in 1 .. n  BY <1>5
  <2>2. d.f[1] = Carried("name", LabelsBefore(code, k), symbols)  BY <1>3, <1>5, <1>9, <2>1
  <2>3. \A v : Carried("name", v, symbols) = IF v \in DOMAIN symbols THEN symbols[v] ELSE [id |-> v]
    BY DEF Carried
  <2> QED  BY <2>2, <2>3
<1> HIDE DEF op, f, code
<1>13. DecodedFrom(code, k, strip, symbols, d)
  BY <1>6, <1>8, <1>10, <1>11, <1>12 DEF DecodedFrom, n, op, f
<1> QED  BY <1>13 DEF d, code, op, numbers

\* The places whose words are written.
WordPlaces(code, strip) == IF strip THEN StepPlaces(code) ELSE DOMAIN code

\* So does every word of the image.
LEMMA WordsDecoded ==
  ASSUME NEW p, NEW strip \in BOOLEAN, Assembles(p, strip), NEW symbols
  PROVE  LET K == WordPlaces(p.code, strip)
             w == Words(p.code, strip)
         IN  /\ Places(K, Len(p.code)) /\ Cardinality(K) \in Nat
             /\ DOMAIN w = 1 .. Cardinality(K)
             /\ \A n \in 1 .. Cardinality(K) :
                   /\ Nth(K, n) \in K /\ Nth(K, n) \in 1 .. Len(p.code)
                   /\ DecodedFrom(p.code, Nth(K, n), strip, symbols, Decode(w[n], symbols))
<1> DEFINE code == p.code
           K == WordPlaces(code, strip)
           w == Words(code, strip)
           all == [k \in DOMAIN code |-> Encode(code[k].op, Numbers(code, k, strip))]
<1>1. IsSequence(code)  BY DEF Assembles, ProperCode
<1>2. DOMAIN code = 1 .. Len(code) /\ Len(code) \in Nat  BY <1>1, SequenceDomain
<1>3. w = Chosen(all, K)  BY DEF Words, WordPlaces
<1>4. IsSequence(all) /\ Len(all) = Len(code)
  <2> DEFINE n == Len(code)
  <2>1. n \in Nat /\ all = [k \in 1 .. n |-> all[k]]  BY <1>2
  <2> HIDE DEF n, all
  <2>2. IsSequence(all) /\ Len(all) = n  BY <2>1, MakesSequence
  <2> QED  BY <2>2 DEF n
<1>5. \A k \in 1 .. Len(code) : all[k] = Encode(code[k].op, Numbers(code, k, strip))  BY <1>2
<1>6. K \in SUBSET (1 .. Len(code))  BY <1>2 DEF WordPlaces, StepPlaces
<1> HIDE DEF all, K, w
<1>7. /\ Places(K, Len(code)) /\ Cardinality(K) \in Nat
      /\ DOMAIN w = 1 .. Cardinality(K)
      /\ \A n \in 1 .. Cardinality(K) : Nth(K, n) \in K /\ w[n] = all[Nth(K, n)]
  BY <1>3, <1>4, <1>6, ChosenType
<1>8. ASSUME NEW n \in 1 .. Cardinality(K)
      PROVE  Nth(K, n) \in 1 .. Len(code) /\ DecodedFrom(code, Nth(K, n), strip, symbols, Decode(w[n], symbols))
  <2> DEFINE k == Nth(K, n)
  <2>1. k \in 1 .. Len(code)  BY <1>6, <1>7
  <2>2. w[n] = Encode(code[k].op, Numbers(code, k, strip))  BY <1>5, <1>7, <2>1
  <2> HIDE DEF k
  <2>3. DecodedFrom(code, k, strip, symbols, Decode(Encode(code[k].op, Numbers(code, k, strip)), symbols))
    BY <2>1, WordDecoded
  <2> QED  BY <2>1, <2>2, <2>3 DEF k
<1> QED  BY <1>7, <1>8 DEF K, w

(***************************************************************************)
(* What the loader makes of what is decoded: the instructions.             *)
(***************************************************************************)
\* Instructions that differ in no field but a target.
SameButTarget(j, i) ==
    /\ j.op = i.op /\ j = [op |-> j.op, f |-> j.f]
    /\ j.f = [z \in 1 .. Len(Fields[i.op]) |-> j.f[z]]
    /\ \A z \in 1 .. Len(Fields[i.op]) : Fields[i.op][z] # "target" => j.f[z] = i.f[z]

\* Such instructions are the same but for their targets.
LEMMA KeptSame ==
  ASSUME NEW i, Shaped(i), NEW j, SameButTarget(j, i)
  PROVE  Kept(j) = Kept(i)
<1> DEFINE n == Len(Fields[i.op])
           op == i.op
<1>1. /\ n \in 0 .. 5 /\ IsSequence(i.f) /\ Len(i.f) = n
      /\ op \in Jumps => n >= 1
      /\ \A z \in 1 .. n : Fields[op][z] = "target" <=> op \in Jumps /\ z = n
  BY JumpFields
<1>2. i = [op |-> op, f |-> i.f] /\ i.f = [z \in 1 .. n |-> i.f[z]]  BY DEF Shaped
<1>3. j = [op |-> op, f |-> j.f] /\ j.f = [z \in 1 .. n |-> j.f[z]]  BY DEF SameButTarget
<1>4. \A z \in 1 .. n : Fields[op][z] # "target" => j.f[z] = i.f[z]  BY DEF SameButTarget
<1> DEFINE a == i.f
           b == j.f
<1> HIDE DEF n, op
<1>5. IsSequence(b) /\ Len(b) = n
  <2>1. n \in Nat  BY <1>1
  <2>2. b = [z \in 1 .. n |-> b[z]]  BY <1>3
  <2> HIDE DEF b
  <2> QED  BY <2>1, <2>2, MakesSequence
<1>6. CASE op \notin Jumps
  <2>1. \A z \in 1 .. n : b[z] = a[z]  BY <1>1, <1>4, <1>6
  <2>2. a = [z \in 1 .. n |-> a[z]] /\ b = [z \in 1 .. n |-> b[z]]  BY <1>2, <1>3
  <2> HIDE DEF a, b
  <2>3. a = b  BY <2>1, <2>2
  <2> QED  BY <1>2, <1>3, <2>3 DEF a, b
<1>7. CASE op \in Jumps
  <2>1. \A z \in 1 .. n - 1 : b[z] = a[z]
    <3>1. \A z \in 1 .. n - 1 : z \in 1 .. n /\ z # n  BY <1>1
    <3> QED  BY <1>1, <1>4, <3>1
  <2>2. Kept(i) = [op |-> op, f |-> Front(a)] /\ Kept(j) = [op |-> op, f |-> Front(b)]
    BY <1>2, <1>3, <1>7 DEF Kept
  <2>3. Front(a) = SubSeq(a, 1, n - 1) /\ Front(b) = SubSeq(b, 1, n - 1)  BY <1>1, <1>5 DEF Front
  <2> DEFINE S == {a[z] : z \in 1 .. n - 1}
             sa == SubSeq(a, 1, n - 1)
             sb == SubSeq(b, 1, n - 1)
  <2> HIDE DEF a, b
  <2>4. \A z \in 1 .. n - 1 : a[z] \in S /\ b[z] \in S  BY <2>1
  <2>5. n - 1 \in Int /\ 1 \in Int  BY <1>1
  <2> HIDE DEF S
  <2>6. /\ sa \in Seq(S) /\ Len(sa) = IF 1 <= n - 1 THEN n - 1 - 1 + 1 ELSE 0
        /\ \A z \in 1 .. n - 1 - 1 + 1 : sa[z] = a[1 + z - 1]
    BY <2>4, <2>5, SubSeqProperties
  <2>7. /\ sb \in Seq(S) /\ Len(sb) = IF 1 <= n - 1 THEN n - 1 - 1 + 1 ELSE 0
        /\ \A z \in 1 .. n - 1 - 1 + 1 : sb[z] = b[1 + z - 1]
    BY <2>4, <2>5, SubSeqProperties
  <2> HIDE DEF sa, sb
  <2>8. Len(sa) = n - 1 /\ Len(sb) = n - 1  BY <1>1, <1>7, <2>6, <2>7
  <2>9. \A z \in 1 .. n - 1 : sa[z] = sb[z]
    <3>1. \A z \in 1 .. n - 1 : sa[z] = a[z] /\ sb[z] = b[z]
      <4>1. n - 1 - 1 + 1 = n - 1 /\ \A z \in 1 .. n - 1 : 1 + z - 1 = z  BY <1>1
      <4> QED  BY <2>6, <2>7, <4>1
    <3> QED  BY <2>1, <3>1
  <2>10. sa = sb  BY <2>6, <2>7, <2>8, <2>9, SeqEqual
  <2> QED  BY <2>2, <2>3, <2>10 DEF sa, sb
<1> QED  BY <1>6, <1>7

\* The program a loader makes of the decoded words.
FromWords(code, strip, symbols, d) ==
    LET K == WordPlaces(code, strip)
    IN  /\ d = [n \in 1 .. Cardinality(K) |-> d[n]]
        /\ \A n \in 1 .. Cardinality(K) : DecodedFrom(code, Nth(K, n), strip, symbols, d[n])
Reloaded(d) == [k \in DOMAIN d |-> Patched(d[k], d)]

\* The loader changes nothing but a target.
LEMMA PatchedKeeps ==
  ASSUME NEW p, NEW strip \in BOOLEAN, Assembles(p, strip), NEW symbols, NEW k \in 1 .. Len(p.code),
         NEW i, DecodedFrom(p.code, k, strip, symbols, i), NEW d
  PROVE  SameButTarget(Patched(i, d), i)
<1> DEFINE n == Len(Fields[i.op])
           j == Patched(i, d)
           v == d[Target(i).addr + 1].f[1]
<1>1. i.op = p.code[k].op /\ i = [op |-> i.op, f |-> i.f] /\ i.f = [z \in 1 .. n |-> i.f[z]]
  BY DEF DecodedFrom
<1>2. Shaped(p.code[k])  BY DEF Assembles, ProperCode, Proper
<1>3. /\ n \in 0 .. 5
      /\ \A z \in 1 .. n : Fields[i.op][z] = "target" <=> i.op \in Jumps /\ z = n
  BY <1>1, <1>2, JumpFields
<1>4. j = i \/ (i.op \in Patchable /\ j = [i EXCEPT !.f = [@ EXCEPT ![Len(@)] = v]])
  BY DEF Patched
<1> SUFFICES /\ j.op = i.op /\ j = [op |-> j.op, f |-> j.f] /\ j.f = [z \in 1 .. n |-> j.f[z]]
             /\ \A z \in 1 .. n : Fields[i.op][z] # "target" => j.f[z] = i.f[z]
  BY DEF SameButTarget
<1> HIDE DEF j, v
<1>5. Len(i.f) = n
  <2> DEFINE f == i.f
  <2>1. n \in Nat /\ f = [z \in 1 .. n |-> f[z]]  BY <1>1, <1>3
  <2> HIDE DEF n, f
  <2>2. IsSequence(f) /\ Len(f) = n  BY <2>1, MakesSequence
  <2> QED  BY <2>2 DEF f
<1>6. \A op \in Patchable : op \in Jumps  BY PatchableAssumption
<1>7. CASE j = i
  <2> HIDE DEF n
  <2>1. j.op = i.op /\ j = [op |-> j.op, f |-> j.f] /\ j.f = [z \in 1 .. n |-> j.f[z]]  BY <1>1, <1>7
  <2>2. \A z \in 1 .. n : Fields[i.op][z] # "target" => j.f[z] = i.f[z]  BY <1>7
  <2> QED  BY <2>1, <2>2 DEF n
<1>8. CASE i.op \in Patchable /\ j = [i EXCEPT !.f = [@ EXCEPT ![Len(@)] = v]]
  <2> DEFINE f == i.f
             g == [f EXCEPT ![n] = v]
  <2>1. j = [i EXCEPT !.f = g]  BY <1>5, <1>8
  <2>2. j.op = i.op /\ j.f = g /\ j = [op |-> j.op, f |-> j.f]  BY <1>1, <2>1
  <2>3. f = [z \in 1 .. n |-> f[z]]  BY <1>1
  <2> HIDE DEF f, n
  <2>4. g = [z \in 1 .. n |-> g[z]] /\ \A z \in 1 .. n : z # n => g[z] = f[z]  BY <2>3
  <2> HIDE DEF g
  <2>5. j.f = [z \in 1 .. n |-> j.f[z]]  BY <2>2, <2>4
  <2>6. \A z \in 1 .. n : Fields[i.op][z] # "target" => j.f[z] = i.f[z]
    BY <1>3, <1>6, <1>8, <2>2, <2>4 DEF f
  <2> QED  BY <2>2, <2>5, <2>6 DEF n
<1> QED  BY <1>4, <1>7, <1>8

\* Where the steps of the loaded program stand.
SameMnemonics(code, strip, c) ==
    LET K == WordPlaces(code, strip)
    IN  /\ c = [n \in 1 .. Cardinality(K) |-> c[n]]
        /\ \A n \in 1 .. Cardinality(K) : c[n].op = code[Nth(K, n)].op
StepsMatch(code, strip, c) ==
    LET K == WordPlaces(code, strip)
        S == StepPlaces(code)
        T == StepPlaces(c)
    IN  /\ T = IF strip THEN 1 .. Cardinality(S) ELSE S
        /\ Cardinality(T) = Cardinality(S) /\ Cardinality(S) \in Nat
        /\ \A n \in 1 .. Cardinality(S) :
              /\ Nth(T, n) \in 1 .. Cardinality(K)
              /\ Nth(K, Nth(T, n)) = Nth(S, n)
              /\ Nth(S, n) \in S

\* The labels are the labels of the program, or have all gone.
LEMMA StepsLoaded ==
  ASSUME NEW code, IsSequence(code), NEW strip \in BOOLEAN, NEW c, SameMnemonics(code, strip, c)
  PROVE  StepsMatch(code, strip, c)
<1> DEFINE K == WordPlaces(code, strip)
           S == StepPlaces(code)
           T == StepPlaces(c)
           M == Cardinality(K)
           N == Cardinality(S)
<1>1. DOMAIN code = 1 .. Len(code) /\ Len(code) \in Nat  BY SequenceDomain
<1>2. Places(S, Len(code))  BY PlacesOf
<1>3. N \in Nat /\ \A n \in 1 .. N : Nth(S, n) \in S  BY <1>2, UpToType, NthPlace
<1>4. DOMAIN c = 1 .. M /\ \A n \in 1 .. M : c[n].op = code[Nth(K, n)].op
  BY DEF SameMnemonics
<1>5. CASE strip
  <2>1. K = S /\ M = N  BY <1>5 DEF WordPlaces
  <2>2. \A n \in 1 .. N : c[n].op # "LABEL"
    <3>1. \A k \in S : code[k].op # "LABEL"  BY DEF StepPlaces
    <3> QED  BY <1>3, <1>4, <2>1, <3>1
  <2>3. T = 1 .. N
    <3>1. \A k : k \in T <=> k \in 1 .. N  BY <1>4, <2>1, <2>2 DEF StepPlaces
    <3> HIDE DEF T, N
    <3> QED  BY <3>1
  <2> HIDE DEF K, S, T, M, N
  <2>4. Cardinality(1 .. N) = N /\ \A n \in 1 .. N : Nth(1 .. N, n) = n  BY <1>3, AllPlaces
  <2>5. Cardinality(T) = N /\ \A n \in 1 .. N : Nth(T, n) = n  BY <2>3, <2>4, Zenon
  <2> QED  BY <1>3, <1>5, <2>1, <2>3, <2>5 DEF K, S, T, M, N, StepsMatch
<1>6. CASE ~strip
  <2>1. K = 1 .. Len(code)  BY <1>1, <1>6 DEF WordPlaces
  <2>2. Cardinality(1 .. Len(code)) = Len(code) /\ \A n \in 1 .. Len(code) : Nth(1 .. Len(code), n) = n
    BY <1>1, AllPlaces
  <2>3. M = Len(code) /\ \A n \in 1 .. Len(code) : Nth(K, n) = n
    <3> HIDE DEF K
    <3> QED  BY <2>1, <2>2, Zenon
  <2>4. T = S
    <3>1. \A k : k \in 1 .. M <=> k \in DOMAIN code  BY <1>1, <2>3
    <3>2. \A k \in 1 .. M : c[k].op = code[k].op  BY <1>4, <2>3
    <3>3. \A k : k \in T <=> k \in S  BY <1>4, <3>1, <3>2 DEF StepPlaces
    <3> HIDE DEF T, S
    <3> QED  BY <3>3
  <2>5. \A n \in 1 .. N : Nth(S, n) \in 1 .. M
    <3>1. \A k \in S : k \in 1 .. M  BY <1>1, <2>3 DEF StepPlaces
    <3> QED  BY <1>3, <3>1
  <2> HIDE DEF K, S, T, M, N
  <2>6. \A n \in 1 .. N : Nth(T, n) \in 1 .. M /\ Nth(K, Nth(T, n)) = Nth(S, n)
    BY <2>3, <2>4, <2>5
  <2>7. Cardinality(T) = N  BY <2>4 DEF N
  <2> QED  BY <1>3, <1>6, <2>4, <2>6, <2>7 DEF K, S, T, M, N, StepsMatch
<1> QED  BY <1>5, <1>6

\* The steps of the loaded program are the steps of the program.
LEMMA LoadedSteps ==
  ASSUME NEW p, NEW strip \in BOOLEAN, Assembles(p, strip), NEW symbols, NEW d,
         FromWords(p.code, strip, symbols, d)
  PROVE  SameSteps(Steps(p.code), Steps(Reloaded(d)))
<1> DEFINE code == p.code
           K == WordPlaces(code, strip)
           M == Cardinality(K)
           c == Reloaded(d)
           S == StepPlaces(code)
           T == StepPlaces(c)
           N == Cardinality(S)
<1>1. IsSequence(code) /\ \A k \in 1 .. Len(code) : Shaped(code[k])
  BY DEF Assembles, ProperCode, Proper
<1>2. d = [n \in 1 .. M |-> d[n]] /\ \A n \in 1 .. M : DecodedFrom(code, Nth(K, n), strip, symbols, d[n])
  BY DEF FromWords
<1>3. c = [n \in 1 .. M |-> Patched(d[n], d)]  BY <1>2 DEF Reloaded
<1>4. c = [n \in 1 .. M |-> c[n]] /\ \A n \in 1 .. M : c[n] = Patched(d[n], d)  BY <1>3
<1>5. \A n \in 1 .. M : Nth(K, n) \in 1 .. Len(code)  BY WordsDecoded
<1> HIDE DEF c
<1>6. ASSUME NEW n \in 1 .. M
      PROVE  c[n].op = code[Nth(K, n)].op /\ (code[Nth(K, n)].op # "LABEL" => Kept(c[n]) = Kept(code[Nth(K, n)]))
  <2> DEFINE k == Nth(K, n)
             i == d[n]
             j == Patched(i, d)
             z == Len(Fields[i.op])
  <2>1. k \in 1 .. Len(code) /\ DecodedFrom(code, k, strip, symbols, i) /\ Shaped(code[k]) /\ c[n] = j
    BY <1>1, <1>2, <1>4, <1>5
  <2>2. SameButTarget(j, i)  BY <2>1, PatchedKeeps
  <2>3. i.op = code[k].op /\ \A l \in 1 .. z : Fields[i.op][l] # "target" /\ Fields[i.op][l] # "name" => i.f[l] = code[k].f[l]
    BY <2>1 DEF DecodedFrom
  <2>4. code[k].op # "LABEL" => \A l \in 1 .. z : Fields[i.op][l] # "name"
    BY <2>1, <2>3, JumpFields
  <2> HIDE DEF k, i, j, code
  <2>5. code[k].op # "LABEL" => Kept(j) = Kept(code[k])
    <3> HAVE code[k].op # "LABEL"
    <3>1. SameButTarget(j, code[k])  BY <2>2, <2>3, <2>4 DEF SameButTarget, z
    <3> QED  BY <2>1, <2>2, <3>1, KeptSame
  <2> QED  BY <2>1, <2>2, <2>3, <2>5 DEF k, SameButTarget
<1>7. /\ Cardinality(T) = N /\ N \in Nat
      /\ \A n \in 1 .. N : Nth(T, n) \in 1 .. M /\ Nth(K, Nth(T, n)) = Nth(S, n) /\ Nth(S, n) \in S
  <2>1. SameMnemonics(code, strip, c)  BY <1>4, <1>6 DEF SameMnemonics
  <2>2. StepsMatch(code, strip, c)  BY <1>1, <2>1, StepsLoaded
  <2> QED  BY <2>2 DEF StepsMatch
<1> DEFINE a == Steps(code)
           b == Steps(c)
<1>8. a = [n \in 1 .. N |-> code[Nth(S, n)]] /\ b = [n \in 1 .. N |-> c[Nth(T, n)]]
  BY <1>7 DEF Steps, Chosen
<1>9. /\ a = [n \in 1 .. N |-> a[n]] /\ b = [n \in 1 .. N |-> b[n]] /\ DOMAIN a = 1 .. N
      /\ \A n \in 1 .. N : a[n] = code[Nth(S, n)] /\ b[n] = c[Nth(T, n)]
  BY <1>8
<1>10. \A k \in S : code[k].op # "LABEL"  BY DEF StepPlaces
<1> HIDE DEF a, b, N, T, S, M, K
<1>11. Len(a) = N /\ Len(b) = N  BY <1>7, <1>9, MakesSequence
<1>12. ASSUME NEW n \in 1 .. N  PROVE a[n].op = b[n].op /\ Kept(a[n]) = Kept(b[n])
  <2>1. /\ Nth(T, n) \in 1 .. M /\ Nth(K, Nth(T, n)) = Nth(S, n) /\ code[Nth(S, n)].op # "LABEL"
    BY <1>7, <1>10
  <2> QED  BY <1>6, <1>9, <2>1
<1> QED  BY <1>9, <1>11, <1>12 DEF SameSteps, a, b, code, c

(***************************************************************************)
(* The loader: where the branches land.                                    *)
(***************************************************************************)
\* The name that the decoder gives a label.
LabelName(code, symbols, k) ==
    IF LabelsBefore(code, k) \in DOMAIN symbols
    THEN symbols[LabelsBefore(code, k)] ELSE [id |-> LabelsBefore(code, k)]

\* Two labels never get the same name from the decoder.
LEMMA LabelNamesApart ==
  ASSUME NEW code, ProperCode(code), ~Duplicated(code), NEW symbols, symbols = <<>> \/ symbols = Symbols(code),
         NEW x \in LabelPlaces(code), NEW y \in LabelPlaces(code),
         LabelName(code, symbols, x) = LabelName(code, symbols, y)
  PROVE  x = y
<1> DEFINE L == LabelPlaces(code)
           N == Cardinality(L)
<1>1. IsSequence(code) /\ DOMAIN code = 1 .. Len(code) /\ Len(code) \in Nat  BY SequenceDomain DEF ProperCode
<1>2. Places(L, Len(code)) /\ N \in Nat  BY <1>1, PlacesOf, UpToType
<1>3. \A z \in L : /\ z \in Int /\ UpTo(L, z) = LabelsBefore(code, z) + 1
                   /\ LabelsBefore(code, z) \in Nat /\ LabelsBefore(code, z) \in 0 .. N - 1
                   /\ Nth(L, LabelsBefore(code, z) + 1) = z
  <2>1. SUFFICES ASSUME NEW z \in L
                 PROVE  /\ z \in Int /\ UpTo(L, z) = LabelsBefore(code, z) + 1
                        /\ LabelsBefore(code, z) \in Nat /\ LabelsBefore(code, z) \in 0 .. N - 1
                        /\ Nth(L, LabelsBefore(code, z) + 1) = z
    OBVIOUS
  <2>2. z \in Int  BY <1>2, PlaceType
  <2> HIDE DEF L, N
  <2>3. UpTo(L, z) = UpTo(L, z - 1) + 1  BY <1>2, <2>2, UpToStep
  <2>4. UpTo(L, z) \in 1 .. N /\ Nth(L, UpTo(L, z)) = z  BY <1>2, PlaceIsNth DEF N
  <2>5. UpTo(L, z - 1) \in Nat  BY <1>2, UpToType
  <2>6. LabelsBefore(code, z) = UpTo(L, z - 1)  BY DEF LabelsBefore, L
  <2>7. UpTo(L, z - 1) \in 0 .. N - 1  BY <1>2, <2>3, <2>4, <2>5
  <2> QED  BY <2>2, <2>3, <2>4, <2>5, <2>6, <2>7
<1>4. CASE symbols = <<>>
  <2>1. \A z \in L : LabelName(code, symbols, z) = [id |-> LabelsBefore(code, z)]
    BY <1>4 DEF LabelName
  <2>2. [id |-> LabelsBefore(code, x)] = [id |-> LabelsBefore(code, y)]  BY <2>1
  <2>3. LabelsBefore(code, x) = LabelsBefore(code, y)  BY <2>2
  <2>4. Nth(L, LabelsBefore(code, x) + 1) = x /\ Nth(L, LabelsBefore(code, y) + 1) = y  BY <1>3
  <2> QED  BY <2>3, <2>4
<1>5. CASE symbols = Symbols(code)
  <2>1. symbols = [id \in 0 .. (N - 1) |-> code[Nth(L, id + 1)].f[1]]  BY <1>5 DEF Symbols
  <2> HIDE DEF L, N
  <2>2. \A z \in L : LabelName(code, symbols, z) = code[z].f[1]
    <3>1. SUFFICES ASSUME NEW z \in L  PROVE LabelName(code, symbols, z) = code[z].f[1]  OBVIOUS
    <3>2. LabelsBefore(code, z) \in 0 .. N - 1 /\ Nth(L, LabelsBefore(code, z) + 1) = z  BY <1>3
    <3>3. LabelsBefore(code, z) \in DOMAIN symbols /\ symbols[LabelsBefore(code, z)] = code[z].f[1]
      BY <2>1, <3>2
    <3> QED  BY <3>3 DEF LabelName
  <2>3. code[x].f[1] = code[y].f[1]  BY <2>2 DEF L
  <2>4. x \in DOMAIN code /\ code[x].op = "LABEL" /\ y \in DOMAIN code /\ code[y].op = "LABEL"  BY DEF LabelPlaces
  <2>5. LabelIndexes(code, code[x].f[1]) = {x}  BY <2>4 DEF Duplicated
  <2>6. y \in LabelIndexes(code, code[x].f[1])  BY <2>3, <2>4 DEF LabelIndexes
  <2> QED  BY <2>5, <2>6
<1> QED  BY <1>4, <1>5

\* Whether a branch lands where it should.
Agrees(code, c, i, j) ==
    LET there == Destination(c, j)
        here == Destination(code, i)
    IN  \/ there = Unresolved /\ i.op = "SETIV"
        \/ /\ there # Unresolved
           /\ Landing(c, there) = Landing(code, here)

\* A branch of the program goes to the place of its label.
LEMMA BranchTarget ==
  ASSUME NEW p, NEW strip \in BOOLEAN, Assembles(p, strip), NEW k \in 1 .. Len(p.code), p.code[k].op \in Jumps
  PROVE  LET code == p.code
             h == Home(code, Target(code[k]))
             a == AddressOf(code, Target(code[k]), strip)
         IN  /\ h \in LabelPlaces(code) /\ h \in 1 .. Len(code)
             /\ Destination(code, code[k]) = h - 1
             /\ a = (IF strip THEN UpTo(StepPlaces(code), h - 1) ELSE h - 1) /\ a \in Nat
<1> DEFINE code == p.code
           name == Target(code[k])
           h == Home(code, name)
           a == AddressOf(code, name, strip)
           I == LabelIndexes(code, name)
<1>1. ProperCode(code) /\ ~Duplicated(code) /\ Defined(code, code[k])  BY DEF Assembles, Encodable
<1>2. I # {}  BY <1>1 DEF Defined
<1>3. h \in LabelPlaces(code) /\ h \in 1 .. Len(code) /\ Max(I) = h
  BY <1>1, <1>2, HomeOf
<1>4. a = (IF strip THEN UpTo(StepPlaces(code), h - 1) ELSE h - 1) /\ a \in Nat
  BY <1>1, <1>3, AddressOfHome
<1>5. Destination(code, code[k]) = Max(I) - 1  BY <1>2 DEF Destination
<1> QED  BY <1>3, <1>4, <1>5

\* A target that is an address, or the label that the loader finds there.
TargetPatched(j, op, a, d) ==
    /\ j.op = op
    /\ op \in Patchable /\ a + 1 \in DOMAIN d /\ d[a + 1].op = "LABEL" => Target(j) = d[a + 1].f[1]
    /\ op \notin Patchable \/ a + 1 \notin DOMAIN d \/ d[a + 1].op # "LABEL" => Target(j) = [addr |-> a]

\* A branch of the loaded program has the address, or the name of the label there.
LEMMA PatchedTarget ==
  ASSUME NEW p, NEW strip \in BOOLEAN, Assembles(p, strip), NEW symbols, NEW k \in 1 .. Len(p.code),
         NEW i, DecodedFrom(p.code, k, strip, symbols, i), p.code[k].op \in Jumps, NEW d
  PROVE  TargetPatched(Patched(i, d), p.code[k].op, AddressOf(p.code, Target(p.code[k]), strip), d)
<1> DEFINE a == AddressOf(p.code, Target(p.code[k]), strip)
           j == Patched(i, d)
           n == Len(Fields[i.op])
           f == i.f
           v == d[a + 1].f[1]
<1>1. /\ i.op = p.code[k].op /\ i = [op |-> i.op, f |-> i.f] /\ f = [z \in 1 .. n |-> f[z]]
      /\ f[n] = [addr |-> a]
  BY DEF DecodedFrom
<1>2. Shaped(p.code[k])  BY DEF Assembles, ProperCode, Proper
<1>3. n \in 0 .. 5 /\ n >= 1  BY <1>1, <1>2, JumpFields
<1>4. IsSequence(f) /\ Len(f) = n
  <2>1. n \in Nat  BY <1>3
  <2> HIDE DEF n, f
  <2> QED  BY <1>1, <2>1, MakesSequence
<1>5. Target(i) = [addr |-> a] /\ Target(i).addr = a
  <2>1. Target(i) = f[n]  BY <1>4 DEF Target, Last
  <2> QED  BY <1>1, <2>1
<1> DEFINE g == [f EXCEPT ![n] = v]
<1>6. j = IF i.op \in Patchable /\ a + 1 \in DOMAIN d /\ d[a + 1].op = "LABEL"
          THEN [i EXCEPT !.f = g] ELSE i
  BY <1>4, <1>5 DEF Patched
<1>7. [i EXCEPT !.f = g].op = i.op /\ [i EXCEPT !.f = g].f = g  BY <1>1
<1>8. g = [z \in 1 .. n |-> g[z]] /\ g[n] = v
  <2>1. n \in 1 .. n  BY <1>3
  <2> HIDE DEF n, f, v
  <2> QED  BY <1>1, <2>1
<1>9. Len(g) = n
  <2>1. n \in Nat  BY <1>3
  <2> HIDE DEF n, g
  <2> QED  BY <1>8, <2>1, MakesSequence
<1>10. Target([i EXCEPT !.f = g]) = v
  <2>1. Target([i EXCEPT !.f = g]) = g[n]  BY <1>7, <1>9 DEF Target, Last
  <2> QED  BY <1>8, <2>1
<1> SUFFICES TargetPatched(j, i.op, a, d)  BY <1>1
<1> HIDE DEF a, n, f, g, j
<1> QED  BY <1>5, <1>6, <1>7, <1>10 DEF TargetPatched

\* The words of a program as a loader sees them.
Loading(p, strip, symbols, d) ==
    /\ Assembles(p, strip) /\ FromWords(p.code, strip, symbols, d)
    /\ symbols = <<>> \/ symbols = Symbols(p.code)

LoadedFrom(code, strip, symbols, d, c) ==
    LET K == WordPlaces(code, strip)
    IN  /\ ProperCode(code) /\ IsSequence(code) /\ DOMAIN code = 1 .. Len(code) /\ Len(code) \in Nat
        /\ DOMAIN d = 1 .. Cardinality(K) /\ DOMAIN c = 1 .. Cardinality(K)
        /\ \A n \in 1 .. Cardinality(K) :
              /\ Nth(K, n) \in 1 .. Len(code) /\ d[n].op = code[Nth(K, n)].op
              /\ DecodedFrom(code, Nth(K, n), strip, symbols, d[n])
              /\ c[n] = Patched(d[n], d) /\ c[n].op = d[n].op
        /\ StepsMatch(code, strip, c)

\* What follows from the decoding of every word.
LEMMA LoadingFacts ==
  ASSUME NEW p, NEW strip \in BOOLEAN, NEW symbols, NEW d, Loading(p, strip, symbols, d)
  PROVE  LoadedFrom(p.code, strip, symbols, d, Reloaded(d))
<1> DEFINE code == p.code
           K == WordPlaces(code, strip)
           M == Cardinality(K)
           c == Reloaded(d)
<1>1. /\ d = [n \in 1 .. M |-> d[n]]
      /\ \A n \in 1 .. M : DecodedFrom(code, Nth(K, n), strip, symbols, d[n])
  BY DEF Loading, FromWords
<1>2. c = [n \in 1 .. M |-> Patched(d[n], d)]  BY <1>1 DEF Reloaded
<1>3. ProperCode(code) /\ Assembles(p, strip)  BY DEF Loading, Assembles
<1>4. IsSequence(code) /\ DOMAIN code = 1 .. Len(code) /\ Len(code) \in Nat
  BY <1>3, SequenceDomain DEF ProperCode
<1>5. \A n \in 1 .. M : Nth(K, n) \in 1 .. Len(code)  BY <1>3, WordsDecoded
<1>6. c = [n \in 1 .. M |-> c[n]] /\ \A n \in 1 .. M : c[n] = Patched(d[n], d)  BY <1>2
<1>7. DOMAIN d = 1 .. M /\ DOMAIN c = 1 .. M  BY <1>1, <1>6
<1> HIDE DEF c, M, K, code
<1>8. ASSUME NEW n \in 1 .. M  PROVE d[n].op = code[Nth(K, n)].op /\ c[n].op = d[n].op
  <2>1. DecodedFrom(code, Nth(K, n), strip, symbols, d[n]) /\ Nth(K, n) \in 1 .. Len(code)
    BY <1>1, <1>5
  <2>2. SameButTarget(Patched(d[n], d), d[n])  BY <1>3, <2>1, PatchedKeeps DEF code
  <2>3. d[n].op = code[Nth(K, n)].op  BY <2>1 DEF DecodedFrom
  <2>4. Patched(d[n], d).op = d[n].op  BY <2>2 DEF SameButTarget
  <2> QED  BY <1>6, <2>3, <2>4
<1>9. StepsMatch(code, strip, c)
  <2>1. SameMnemonics(code, strip, c)  BY <1>6, <1>8 DEF SameMnemonics, K, M
  <2> QED  BY <1>4, <2>1, StepsLoaded
<1>10. LoadedFrom(code, strip, symbols, d, c)
  BY <1>1, <1>3, <1>4, <1>5, <1>6, <1>7, <1>8, <1>9 DEF LoadedFrom, K, M
<1> QED  BY <1>10 DEF c, code

\* Without the label words a branch is left with its address.
LEMMA StrippedBranch ==
  ASSUME NEW p, NEW symbols, NEW d, Loading(p, TRUE, symbols, d),
         NEW q \in 1 .. Cardinality(StepPlaces(p.code)),
         p.code[Nth(StepPlaces(p.code), q)].op \in Jumps
  PROVE  Agrees(p.code, Reloaded(d), p.code[Nth(StepPlaces(p.code), q)], Reloaded(d)[q])
<1> DEFINE code == p.code
           c == Reloaded(d)
           S == StepPlaces(code)
           N == Cardinality(S)
           k == Nth(S, q)
           name == Target(code[k])
           h == Home(code, name)
           a == AddressOf(code, name, TRUE)
           j == c[q]
           i == d[q]
<1>1. WordPlaces(code, TRUE) = S  BY DEF WordPlaces
<1>2. /\ DOMAIN d = 1 .. N /\ DOMAIN c = 1 .. N
      /\ \A n \in 1 .. N : /\ Nth(S, n) \in 1 .. Len(code) /\ d[n].op = code[Nth(S, n)].op
                           /\ DecodedFrom(code, Nth(S, n), TRUE, symbols, d[n])
                           /\ c[n] = Patched(d[n], d) /\ c[n].op = d[n].op
  <2>1. LoadedFrom(code, TRUE, symbols, d, c)  BY LoadingFacts
  <2> HIDE DEF code, c, S, N
  <2> QED  BY <1>1, <2>1 DEF LoadedFrom, N
<1>3. /\ StepsMatch(code, TRUE, c) /\ IsSequence(code) /\ Assembles(p, TRUE)
  BY LoadingFacts DEF Loading, LoadedFrom
<1>4. StepPlaces(c) = 1 .. N /\ N \in Nat /\ \A n \in 1 .. N : Nth(S, n) \in S
  BY <1>3 DEF StepsMatch
<1>5. \A n \in 1 .. N : d[n].op # "LABEL" /\ c[n].op # "LABEL"
  <2>1. \A x \in S : code[x].op # "LABEL"  BY DEF StepPlaces
  <2> QED  BY <1>2, <1>4, <2>1
<1>6. k \in 1 .. Len(code) /\ code[k].op \in Jumps /\ DecodedFrom(code, k, TRUE, symbols, i) /\ j = Patched(i, d)
  BY <1>2
<1>7. /\ h \in 1 .. Len(code) /\ Destination(code, code[k]) = h - 1
      /\ a = UpTo(S, h - 1) /\ a \in Nat
  BY <1>3, <1>6, BranchTarget
<1>8. Target(j) = [addr |-> a] /\ j.op = code[k].op
  <2>1. a + 1 \notin DOMAIN d \/ d[a + 1].op # "LABEL"
    <3> HIDE DEF a
    <3> QED  BY <1>2, <1>5
  <2>2. TargetPatched(j, code[k].op, a, d)  BY <1>3, <1>6, PatchedTarget
  <2> HIDE DEF j, a, k, code
  <2> QED  BY <2>1, <2>2 DEF TargetPatched
<1>9. \A t : LabelIndexes(c, t) = {}  BY <1>2, <1>5 DEF LabelIndexes
<1>10. Destination(c, j) = IF j.op # "SETIV" THEN a ELSE Unresolved
  <2>1. LabelIndexes(c, Target(j)) = {}  BY <1>9
  <2>2. "addr" \in DOMAIN Target(j) /\ Target(j).addr = a  BY <1>8
  <2> QED  BY <2>1, <2>2 DEF Destination
<1>11. Places(S, Len(code))  BY <1>3, PlacesOf
<1> HIDE DEF h
<1>12. Landing(code, h - 1) = a  BY <1>7 DEF Landing
<1>13. Landing(c, a) = a
  <2>1. a <= N  BY <1>7, <1>11, UpToType
  <2>2. a \in 0 .. N
    <3>1. a \in Nat /\ N \in Nat  BY <1>4, <1>7
    <3> HIDE DEF a, N
    <3> QED  BY <2>1, <3>1
  <2>3. UpTo(1 .. N, a) = a  BY <1>4, <2>2, AllPlaces
  <2> HIDE DEF a, c, N
  <2> QED  BY <1>4, <2>3 DEF Landing
<1>14. a # Unresolved
  <2>1. a \in Nat  BY <1>7
  <2> HIDE DEF a
  <2> QED  BY <2>1 DEF Unresolved
<1> HIDE DEF a, j, k, c, code
<1>15. Agrees(code, c, code[k], j)  BY <1>7, <1>8, <1>10, <1>12, <1>13, <1>14 DEF Agrees
<1> QED  BY <1>15 DEF code, k, c, j

\* With them, it is patched with the name of its label, or left with the address.
LEMMA LabelledBranch ==
  ASSUME NEW p, NEW symbols, NEW d, Loading(p, FALSE, symbols, d),
         NEW k \in 1 .. Len(p.code), p.code[k].op \in Jumps,
         ~Misled(Reloaded(d), Reloaded(d)[k])
  PROVE  Agrees(p.code, Reloaded(d), p.code[k], Reloaded(d)[k])
<1> DEFINE code == p.code
           c == Reloaded(d)
           n == Len(code)
           S == StepPlaces(code)
           name == Target(code[k])
           h == Home(code, name)
           a == AddressOf(code, name, FALSE)
           j == c[k]
           nm(x) == LabelName(code, symbols, x)
<1>1. ProperCode(code) /\ IsSequence(code) /\ DOMAIN code = 1 .. n /\ n \in Nat /\ Assembles(p, FALSE)
      /\ StepsMatch(code, FALSE, c) /\ ~Duplicated(code)
  BY LoadingFacts DEF Loading, Assembles, LoadedFrom
<1>2. Cardinality(WordPlaces(code, FALSE)) = n /\ \A x \in 1 .. n : Nth(WordPlaces(code, FALSE), x) = x
  <2> DEFINE K == WordPlaces(code, FALSE)
  <2>1. K = 1 .. n  BY <1>1 DEF WordPlaces
  <2>2. Cardinality(1 .. n) = n /\ \A x \in 1 .. n : Nth(1 .. n, x) = x  BY <1>1, AllPlaces
  <2> HIDE DEF K
  <2>3. Cardinality(K) = n /\ \A x \in 1 .. n : Nth(K, x) = x  BY <2>1, <2>2, Zenon
  <2> QED  BY <2>3 DEF K
<1>3. /\ DOMAIN d = 1 .. n /\ DOMAIN c = 1 .. n
      /\ \A x \in 1 .. n : /\ d[x].op = code[x].op /\ DecodedFrom(code, x, FALSE, symbols, d[x])
                           /\ c[x] = Patched(d[x], d) /\ c[x].op = d[x].op
  <2> DEFINE K == WordPlaces(code, FALSE)
             M == Cardinality(K)
  <2>1. /\ DOMAIN d = 1 .. M /\ DOMAIN c = 1 .. M
        /\ \A x \in 1 .. M : /\ d[x].op = code[Nth(K, x)].op /\ DecodedFrom(code, Nth(K, x), FALSE, symbols, d[x])
                             /\ c[x] = Patched(d[x], d) /\ c[x].op = d[x].op
    <3>1. LoadedFrom(code, FALSE, symbols, d, c)  BY LoadingFacts
    <3> HIDE DEF code, c
    <3> QED  BY <3>1 DEF LoadedFrom
  <2>2. M = n /\ \A x \in 1 .. n : Nth(K, x) = x  BY <1>2
  <2> HIDE DEF K, M, c, code, n
  <2> QED  BY <2>1, <2>2
<1>4. StepPlaces(c) = S  BY <1>1 DEF StepsMatch
<1>5. h \in LabelPlaces(code) /\ h \in 1 .. n /\ Destination(code, code[k]) = h - 1 /\ a = h - 1
  BY <1>1, BranchTarget
<1>6. ASSUME NEW x \in 1 .. n, code[x].op = "LABEL"
      PROVE  c[x].f[1] = nm(x) /\ d[x].f[1] = nm(x) /\ x \in LabelPlaces(code)
  <2>1. d[x].f[1] = nm(x)  BY <1>3, <1>6 DEF DecodedFrom, LabelName
  <2>2. c[x] = d[x]  BY <1>3, <1>6 DEF Patched, Patchable
  <2>3. x \in LabelPlaces(code)  BY <1>1, <1>6 DEF LabelPlaces
  <2> QED  BY <2>1, <2>2, <2>3
<1>7. code[h].op = "LABEL"  BY <1>5 DEF LabelPlaces
<1>8. LabelIndexes(c, nm(h)) = {h}
  <2>1. \A x \in 1 .. n : c[x].op = "LABEL" /\ c[x].f[1] = nm(h) => x = h
    <3>1. SUFFICES ASSUME NEW x \in 1 .. n, c[x].op = "LABEL", c[x].f[1] = nm(h)  PROVE x = h  OBVIOUS
    <3>2. code[x].op = "LABEL"  BY <1>3, <3>1
    <3>3. nm(x) = nm(h) /\ x \in LabelPlaces(code)  BY <1>6, <3>1, <3>2
    <3>4. symbols = <<>> \/ symbols = Symbols(code)  BY DEF Loading
    <3> HIDE DEF code, h
    <3> QED  BY <1>1, <1>5, <3>3, <3>4, LabelNamesApart
  <2>2. c[h].op = "LABEL" /\ c[h].f[1] = nm(h)  BY <1>3, <1>5, <1>6, <1>7
  <2> DEFINE v == nm(h)
  <2>3. \A x : x \in LabelIndexes(c, v) <=> x = h
    BY <1>3, <1>5, <2>1, <2>2 DEF LabelIndexes
  <2> HIDE DEF h, v, c
  <2>4. LabelIndexes(c, v) = {h}  BY <2>3
  <2> QED  BY <2>4 DEF v
<1>9. j = Patched(d[k], d) /\ DecodedFrom(code, k, FALSE, symbols, d[k])  BY <1>3
<1>10. /\ j.op = code[k].op
       /\ j.op \in Patchable => Target(j) = nm(h)
       /\ j.op \notin Patchable => Target(j) = [addr |-> a]
  <2>1. a + 1 = h
    <3>1. a = h - 1 /\ h \in 1 .. n  BY <1>5
    <3> HIDE DEF a, h, n
    <3>2. h \in Int  BY <1>1, <3>1
    <3> QED  BY <3>1, <3>2
  <2>2. a + 1 \in DOMAIN d /\ d[a + 1].op = "LABEL" /\ d[a + 1].f[1] = nm(h)
    BY <1>3, <1>5, <1>6, <1>7, <2>1
  <2>3. TargetPatched(j, code[k].op, a, d)  BY <1>1, <1>9, PatchedTarget
  <2> HIDE DEF j, a, nm, code
  <2> QED  BY <2>2, <2>3 DEF TargetPatched
<1>11. Destination(c, j) = h - 1
  <2>1. CASE j.op \in Patchable
    <3>1. Target(j) = nm(h)  BY <1>10, <2>1
    <3>2. Max({h}) = h
      <4>1. h \in Int  BY <1>5
      <4> HIDE DEF h
      <4> QED  BY <4>1 DEF Max
    <3>3. LabelIndexes(c, Target(j)) = {h}  BY <1>8, <3>1
    <3>4. Destination(c, j) = Max(LabelIndexes(c, Target(j))) - 1  BY <3>3 DEF Destination
    <3> HIDE DEF h, j, c
    <3> QED  BY <3>2, <3>3, <3>4
  <2>2. CASE j.op \notin Patchable
    <3>1. LabelIndexes(c, Target(j)) = {}  BY <2>2 DEF Misled
    <3>2. "addr" \in DOMAIN Target(j) /\ Target(j).addr = a
      <4>1. Target(j) = [addr |-> a]  BY <1>10, <2>2
      <4> HIDE DEF j, a
      <4> QED  BY <4>1
    <3>3. j.op # "SETIV"  BY <2>2 DEF Patchable
    <3>4. Destination(c, j) = a  BY <3>1, <3>2, <3>3 DEF Destination
    <3> QED  BY <1>5, <3>4
  <2> QED  BY <2>1, <2>2
<1>12. Landing(c, h - 1) = Landing(code, h - 1)  BY <1>4 DEF Landing
<1>13. h - 1 # Unresolved
  <2> HIDE DEF h
  <2> QED  BY <1>5 DEF Unresolved
<1> HIDE DEF j, c, code, h
<1>14. Agrees(code, c, code[k], j)  BY <1>5, <1>11, <1>12, <1>13 DEF Agrees
<1> QED  BY <1>14 DEF j, c, code

\* Every branch that is not misled lands where it should.
BranchesAgree(code, c) ==
    \A q \in DOMAIN Steps(code) :
        Steps(code)[q].op \in Jumps /\ ~Misled(c, Steps(c)[q]) => Agrees(code, c, Steps(code)[q], Steps(c)[q])

\* Of any kind of image.
LEMMA LoadedBranches ==
  ASSUME NEW p, NEW strip \in BOOLEAN, NEW symbols, NEW d, Loading(p, strip, symbols, d)
  PROVE  BranchesAgree(p.code, Reloaded(d))
<1> DEFINE code == p.code
           c == Reloaded(d)
           S == StepPlaces(code)
           T == StepPlaces(c)
           N == Cardinality(S)
<1>1. LoadedFrom(code, strip, symbols, d, c)  BY LoadingFacts
<1>2. DOMAIN code = 1 .. Len(code) /\ StepsMatch(code, strip, c)  BY <1>1 DEF LoadedFrom
<1>3. /\ Cardinality(T) = N /\ N \in Nat
      /\ \A n \in 1 .. N : Nth(S, n) \in S /\ Nth(S, n) \in 1 .. Len(code)
  <2>1. \A k \in S : k \in 1 .. Len(code)  BY <1>2 DEF StepPlaces
  <2> QED  BY <1>2, <2>1 DEF StepsMatch
<1>4. /\ DOMAIN Steps(code) = 1 .. N
      /\ \A n \in 1 .. N : Steps(code)[n] = code[Nth(S, n)] /\ Steps(c)[n] = c[Nth(T, n)]
  <2>1. Steps(code) = [n \in 1 .. N |-> code[Nth(S, n)]]  BY DEF Steps, Chosen
  <2>2. Steps(c) = [n \in 1 .. N |-> c[Nth(T, n)]]  BY <1>3 DEF Steps, Chosen
  <2> HIDE DEF N, S, T, c, code
  <2> QED  BY <2>1, <2>2
<1>5. ASSUME NEW n \in 1 .. N, code[Nth(S, n)].op \in Jumps, ~Misled(c, c[Nth(T, n)])
      PROVE  Agrees(code, c, code[Nth(S, n)], c[Nth(T, n)])
  <2>1. CASE strip = TRUE
    <3>1. T = 1 .. N  BY <1>2, <2>1 DEF StepsMatch
    <3>2. Nth(1 .. N, n) = n  BY <1>3, AllPlaces
    <3> HIDE DEF T, N
    <3>3. Nth(T, n) = n  BY <3>1, <3>2, Zenon
    <3>4. Agrees(code, c, code[Nth(S, n)], c[n])  BY <1>5, <2>1, StrippedBranch DEF N
    <3> QED  BY <3>3, <3>4
  <2>2. CASE strip = FALSE
    <3>1. T = S  BY <1>2, <2>2 DEF StepsMatch
    <3> DEFINE k == Nth(S, n)
    <3> HIDE DEF S, T
    <3>2. Nth(T, n) = k  BY <3>1
    <3>3. k \in 1 .. Len(code)  BY <1>3
    <3> HIDE DEF k
    <3>4. code[k].op \in Jumps /\ ~Misled(c, c[k])  BY <1>5, <3>2 DEF k
    <3>5. Agrees(code, c, code[k], c[k])  BY <2>2, <3>3, <3>4, LabelledBranch
    <3> QED  BY <3>2, <3>5 DEF k
  <2> QED  BY <2>1, <2>2
<1> HIDE DEF code, c, S, T, N
<1>6. BranchesAgree(code, c)  BY <1>4, <1>5 DEF BranchesAgree
<1> QED  BY <1>6 DEF code, c

\* The order of the sections of an image, what each holds, and whether it is written.
Order == <<"code", "data", "metadata", "shared", "private", "debug">>
Body(r, n) ==
    CASE n = 1 -> [words |-> r.words, entry |-> r.entry]
      [] n = 2 -> r.data
      [] n = 3 -> [qubits |-> r.qubits, threads |-> r.threads]
      [] n = 4 -> r.shared
      [] n = 5 -> r.private
      [] n = 6 -> r.symbols
Wanted(r, debug, n) ==
    CASE n = 1 -> TRUE
      [] n = 2 -> r.data # 0
      [] n = 3 -> TRUE
      [] n = 4 -> r.shared # 0
      [] n = 5 -> r.private > 0
      [] n = 6 -> debug /\ r.symbols # <<>>
\* The first n of them: each that is wanted, in the order.
Recorded(w, r, debug, n) ==
    /\ IsSequence(w)
    /\ \A k \in 1 .. Len(w) : \E z \in 1 .. n : w[k] = [kind |-> Order[z], body |-> Body(r, z)]
    /\ \A z \in 1 .. n : Wanted(r, debug, z) => \E k \in 1 .. Len(w) : w[k].kind = Order[z]
    /\ \A j, k \in 1 .. Len(w) : \A l, z \in 1 .. n :
          w[j].kind = Order[l] /\ w[k].kind = Order[z] => (j < k <=> l < z)

\* The six sections have six names.
LEMMA OrderFacts ==
  /\ Order[1] = "code" /\ Order[2] = "data" /\ Order[3] = "metadata"
  /\ Order[4] = "shared" /\ Order[5] = "private" /\ Order[6] = "debug"
  /\ \A l, j \in 1 .. 6 : Order[l] = Order[j] => l = j
<1>1. /\ Order[1] = "code" /\ Order[2] = "data" /\ Order[3] = "metadata"
      /\ Order[4] = "shared" /\ Order[5] = "private" /\ Order[6] = "debug"
  BY DEF Order
<1>2. \A l \in 1 .. 6 : l = 1 \/ l = 2 \/ l = 3 \/ l = 4 \/ l = 5 \/ l = 6  OBVIOUS
<1> QED  BY <1>1, <1>2

\* The next section keeps the order.
LEMMA SectionAdded ==
  ASSUME NEW r, NEW debug, NEW w, NEW n \in 0 .. 5, Recorded(w, r, debug, n)
  PROVE  Recorded(w \o Section(Order[n + 1], Body(r, n + 1), Wanted(r, debug, n + 1)), r, debug, n + 1)
<1> DEFINE kind == Order[n + 1]
           sec == [kind |-> kind, body |-> Body(r, n + 1)]
           L == Len(w)
<1>1. /\ IsSequence(w)
      /\ \A k \in 1 .. L : \E z \in 1 .. n : w[k] = [kind |-> Order[z], body |-> Body(r, z)]
      /\ \A z \in 1 .. n : Wanted(r, debug, z) => \E k \in 1 .. L : w[k].kind = Order[z]
      /\ \A j, k \in 1 .. L : \A l, z \in 1 .. n :
            w[j].kind = Order[l] /\ w[k].kind = Order[z] => (j < k <=> l < z)
  BY DEF Recorded
<1>2. L \in Nat  BY <1>1, SequenceDomain
<1>3. \A l, z \in 1 .. n + 1 : Order[l] = Order[z] => l = z
  <2>1. \A l \in 1 .. n + 1 : l \in 1 .. 6  OBVIOUS
  <2> QED  BY <2>1, OrderFacts
<1>4. \A k \in 1 .. L : \E z \in 1 .. n : w[k].kind = Order[z]
  <2>1. SUFFICES ASSUME NEW k \in 1 .. L  PROVE \E z \in 1 .. n : w[k].kind = Order[z]  OBVIOUS
  <2>2. PICK z \in 1 .. n : w[k] = [kind |-> Order[z], body |-> Body(r, z)]  BY <1>1
  <2> QED  BY <2>2
<1>5. CASE ~Wanted(r, debug, n + 1)
  <2> DEFINE v == w \o <<>>
  <2>1. Section(kind, Body(r, n + 1), Wanted(r, debug, n + 1)) = <<>>  BY <1>5 DEF Section
  <2>2. v = w
    <3>1. w \in Seq({w[k] : k \in 1 .. L})
      <4>1. \A k \in 1 .. L : w[k] \in {w[i] : i \in 1 .. L}  OBVIOUS
      <4> QED  BY <1>1, <4>1, SequenceType
    <3> QED  BY <3>1, ConcatEmptySeq
  <2>3. \A k \in 1 .. L : w[k].kind # Order[n + 1]
    <3>1. \A z \in 1 .. n : z \in 1 .. n + 1 /\ n + 1 \in 1 .. n + 1 /\ z # n + 1  OBVIOUS
    <3> QED  BY <1>3, <1>4, <3>1
  <2>4. \A z \in 1 .. n + 1 : z \in 1 .. n \/ z = n + 1  OBVIOUS
  <2>5. Recorded(w, r, debug, n + 1)
    <3> HIDE DEF L
    <3>1. \A k \in 1 .. L : \E z \in 1 .. n + 1 : w[k] = [kind |-> Order[z], body |-> Body(r, z)]
      <4>1. \A z \in 1 .. n : z \in 1 .. n + 1  OBVIOUS
      <4> QED  BY <1>1, <4>1
    <3>2. \A z \in 1 .. n + 1 : Wanted(r, debug, z) => \E k \in 1 .. L : w[k].kind = Order[z]
      BY <1>1, <1>5, <2>4
    <3>3. \A j, k \in 1 .. L : \A l, z \in 1 .. n + 1 :
            w[j].kind = Order[l] /\ w[k].kind = Order[z] => (j < k <=> l < z)
      BY <1>1, <2>3, <2>4
    <3> QED  BY <1>1, <3>1, <3>2, <3>3 DEF Recorded, L
  <2> HIDE DEF v
  <2> QED  BY <2>1, <2>2, <2>5 DEF v
<1>6. CASE Wanted(r, debug, n + 1)
  <2> DEFINE v == w \o <<sec>>
  <2>1. Section(kind, Body(r, n + 1), Wanted(r, debug, n + 1)) = <<sec>>  BY <1>6 DEF Section
  <2>2. /\ IsSequence(v) /\ Len(v) = L + 1
        /\ \A k \in 1 .. L + 1 : v[k] = IF k <= L THEN w[k] ELSE <<sec>>[k - L]
    <3>1. <<sec>> \in Seq({sec}) /\ Len(<<sec>>) = 1  OBVIOUS
    <3> HIDE DEF sec
    <3>2. IsSequence(<<sec>>)  BY <3>1, IsSequenceOf
    <3> QED  BY <1>1, <3>1, <3>2, ConcatSequences
  <2>3. v[L + 1] = sec /\ \A k \in 1 .. L : v[k] = w[k]
    <3> HIDE DEF sec, v
    <3>1. L + 1 \in 1 .. L + 1 /\ ~(L + 1 <= L) /\ L + 1 - L = 1  BY <1>2
    <3>2. \A k \in 1 .. L : k \in 1 .. L + 1 /\ k <= L  BY <1>2
    <3> QED  BY <2>2, <3>1, <3>2
  <2> HIDE DEF v
  <2>4. \A k \in 1 .. L + 1 : k \in 1 .. L \/ k = L + 1  BY <1>2
  <2>5. \A z \in 1 .. n + 1 : z \in 1 .. n \/ z = n + 1  OBVIOUS
  <2>6. \A z \in 1 .. n : z \in 1 .. n + 1 /\ z < n + 1 /\ ~(n + 1 < z)  OBVIOUS
  <2>7. \A k \in 1 .. L : k \in 1 .. L + 1 /\ k < L + 1 /\ ~(L + 1 < k)  BY <1>2
  <2>8. sec = [kind |-> Order[n + 1], body |-> Body(r, n + 1)] /\ sec.kind = Order[n + 1]  OBVIOUS
  <2>9. L + 1 \in 1 .. L + 1 /\ ~(L + 1 < L + 1) /\ n + 1 \in 1 .. n + 1 /\ ~(n + 1 < n + 1)  BY <1>2
  <2> HIDE DEF sec, L
  <2>10. \A k \in 1 .. L + 1 : \E z \in 1 .. n + 1 : v[k] = [kind |-> Order[z], body |-> Body(r, z)]
    BY <1>1, <2>3, <2>4, <2>6, <2>8, <2>9
  <2>11. \A z \in 1 .. n + 1 : Wanted(r, debug, z) => \E k \in 1 .. L + 1 : v[k].kind = Order[z]
    BY <1>1, <2>3, <2>5, <2>7, <2>8, <2>9
  <2>12. ASSUME NEW j \in 1 .. L + 1, NEW k \in 1 .. L + 1, NEW l \in 1 .. n + 1, NEW z \in 1 .. n + 1,
                v[j].kind = Order[l], v[k].kind = Order[z]
         PROVE  j < k <=> l < z
    <3>1. \A i \in 1 .. L : \A x \in 1 .. n + 1 : v[i].kind = Order[x] => x \in 1 .. n
      <4>1. SUFFICES ASSUME NEW i \in 1 .. L, NEW x \in 1 .. n + 1, v[i].kind = Order[x]  PROVE x \in 1 .. n  OBVIOUS
      <4>2. PICK y \in 1 .. n : w[i].kind = Order[y]  BY <1>4 DEF L
      <4>3. x = y  BY <1>3, <2>3, <2>6, <4>1, <4>2
      <4> QED  BY <4>3
    <3>2. \A x \in 1 .. n + 1 : v[L + 1].kind = Order[x] => x = n + 1  BY <1>3, <2>3, <2>8, <2>9
    <3>3. CASE j \in 1 .. L /\ k \in 1 .. L  BY <1>1, <2>3, <2>12, <3>1, <3>3
    <3>4. CASE j \in 1 .. L /\ k = L + 1  BY <2>6, <2>7, <2>12, <3>1, <3>2, <3>4
    <3>5. CASE j = L + 1 /\ k \in 1 .. L  BY <2>6, <2>7, <2>12, <3>1, <3>2, <3>5
    <3>6. CASE j = L + 1 /\ k = L + 1  BY <2>9, <2>12, <3>2, <3>6
    <3> QED  BY <2>4, <3>3, <3>4, <3>5, <3>6
  <2>13. Recorded(v, r, debug, n + 1)  BY <2>2, <2>10, <2>11, <2>12 DEF Recorded
  <2> QED  BY <2>1, <2>13 DEF v
<1> QED  BY <1>5, <1>6

\* The whole image is in order.
LEMMA ImageWritten ==
  ASSUME NEW r, NEW debug
  PROVE  Recorded(WriteCqb(r, debug), r, debug, 6)
<1> DEFINE S(n) == Section(Order[n], Body(r, n), Wanted(r, debug, n))
<1>1. Recorded(<<>>, r, debug, 0)
  <2>1. IsSequence(<<>>) /\ Len(<<>>) = 0  BY DEF IsSequence
  <2> QED  BY <2>1 DEF Recorded
<1>2. \A n \in 0 .. 5 : \A w : Recorded(w, r, debug, n) => Recorded(w \o S(n + 1), r, debug, n + 1)
  BY SectionAdded
<1>3. /\ S(1) = Section("code", [words |-> r.words, entry |-> r.entry], TRUE)
      /\ S(2) = Section("data", r.data, r.data # 0)
      /\ S(3) = Section("metadata", [qubits |-> r.qubits, threads |-> r.threads], TRUE)
      /\ S(4) = Section("shared", r.shared, r.shared # 0)
      /\ S(5) = Section("private", r.private, r.private > 0)
      /\ S(6) = Section("debug", r.symbols, debug /\ r.symbols # <<>>)
  BY OrderFacts DEF Body, Wanted
<1>4. WriteCqb(r, debug) = S(1) \o S(2) \o S(3) \o S(4) \o S(5) \o S(6)
  BY <1>3 DEF WriteCqb
<1>5. <<>> \o S(1) = S(1)
  <2> DEFINE x == [kind |-> Order[1], body |-> Body(r, 1)]
  <2>1. S(1) = <<x>>  BY DEF Section, Wanted
  <2> HIDE DEF x, S
  <2>2. <<x>> \in Seq({x})  OBVIOUS
  <2> QED  BY <2>1, <2>2, ConcatEmptySeq
<1> HIDE DEF S
<1>6. Recorded(S(1), r, debug, 1)
  <2>1. 0 \in 0 .. 5 /\ 0 + 1 = 1  OBVIOUS
  <2>2. Recorded(<<>> \o S(0 + 1), r, debug, 0 + 1)  BY <1>1, <1>2, <2>1, Zenon
  <2> QED  BY <1>5, <2>1, <2>2
<1>7. Recorded(S(1) \o S(2), r, debug, 2)
  <2>1. Recorded(S(1) \o S(1 + 1), r, debug, 1 + 1)  BY <1>2, <1>6
  <2> QED  BY <2>1
<1>8. Recorded(S(1) \o S(2) \o S(3), r, debug, 3)
  <2>1. Recorded((S(1) \o S(2)) \o S(2 + 1), r, debug, 2 + 1)  BY <1>2, <1>7
  <2> QED  BY <2>1
<1>9. Recorded(S(1) \o S(2) \o S(3) \o S(4), r, debug, 4)
  <2>1. Recorded((S(1) \o S(2) \o S(3)) \o S(3 + 1), r, debug, 3 + 1)  BY <1>2, <1>8
  <2> QED  BY <2>1
<1>10. Recorded(S(1) \o S(2) \o S(3) \o S(4) \o S(5), r, debug, 5)
  <2>1. Recorded((S(1) \o S(2) \o S(3) \o S(4)) \o S(4 + 1), r, debug, 4 + 1)  BY <1>2, <1>9
  <2> QED  BY <2>1
<1>11. Recorded(S(1) \o S(2) \o S(3) \o S(4) \o S(5) \o S(6), r, debug, 6)
  <2>1. Recorded((S(1) \o S(2) \o S(3) \o S(4) \o S(5)) \o S(5 + 1), r, debug, 5 + 1)  BY <1>2, <1>10
  <2> QED  BY <2>1
<1> QED  BY <1>4, <1>11

\* What is on disk and what is still to be written are together the image of an assembly.
OnDisk(r, debug) ==
    /\ IsSequence(file) /\ IsSequence(unwritten)
    /\ file \o unwritten = WriteCqb(r, debug)
Has(n) == \E k \in 1 .. Len(file) : file[k].kind = Order[n]

\* What is on disk is a beginning of it.
LEMMA PrefixOnDisk ==
  ASSUME NEW r, NEW debug, OnDisk(r, debug)
  PROVE  LET w == WriteCqb(r, debug)
         IN  /\ Recorded(w, r, debug, 6) /\ Len(file) \in Nat /\ Len(w) \in Nat /\ Len(file) <= Len(w)
             /\ \A k \in 1 .. Len(file) : file[k] = w[k]
             /\ unwritten = <<>> => Len(w) = Len(file)
<1> DEFINE w == file \o unwritten
<1>1. w = WriteCqb(r, debug) /\ IsSequence(file) /\ IsSequence(unwritten)  BY DEF OnDisk
<1>2. Len(file) \in Nat /\ Len(unwritten) \in Nat  BY <1>1, SequenceDomain
<1>3. /\ Len(w) = Len(file) + Len(unwritten)
      /\ \A k \in 1 .. Len(file) + Len(unwritten) :
            w[k] = IF k <= Len(file) THEN file[k] ELSE unwritten[k - Len(file)]
  BY <1>1, ConcatSequences
<1>4. \A k \in 1 .. Len(file) : k \in 1 .. Len(file) + Len(unwritten) /\ k <= Len(file)  BY <1>2
<1>5. unwritten = <<>> => Len(unwritten) = 0  OBVIOUS
<1>6. Recorded(WriteCqb(r, debug), r, debug, 6)  BY ImageWritten
<1> HIDE DEF w
<1> QED  BY <1>1, <1>2, <1>3, <1>4, <1>5, <1>6

\* A section found on disk has what was written; none is found after a missing one.
LEMMA SectionsRead ==
  ASSUME NEW r, NEW debug, OnDisk(r, debug)
  PROVE  /\ \A n \in 1 .. 6 : \A default :
               ReadSection(Order[n], default) = IF Has(n) THEN Body(r, n) ELSE default
         /\ file # <<>> => Has(1)
         /\ \A l, n \in 1 .. 6 : l < n /\ Wanted(r, debug, l) /\ Has(n) => Has(l)
         /\ unwritten = <<>> => \A n \in 1 .. 6 : Wanted(r, debug, n) => Has(n)
<1> DEFINE w == WriteCqb(r, debug)
           L == Len(file)
           W == Len(w)
<1>1. /\ Recorded(w, r, debug, 6) /\ L \in Nat /\ W \in Nat /\ L <= W
      /\ \A k \in 1 .. L : file[k] = w[k]
      /\ unwritten = <<>> => W = L
  BY PrefixOnDisk
<1>2. /\ \A k \in 1 .. W : \E z \in 1 .. 6 : w[k] = [kind |-> Order[z], body |-> Body(r, z)]
      /\ \A z \in 1 .. 6 : Wanted(r, debug, z) => \E k \in 1 .. W : w[k].kind = Order[z]
      /\ \A j, k \in 1 .. W : \A l, z \in 1 .. 6 :
            w[j].kind = Order[l] /\ w[k].kind = Order[z] => (j < k <=> l < z)
  BY <1>1 DEF Recorded
<1>3. \A k \in 1 .. L : k \in 1 .. W  BY <1>1
<1>4. \A l, z \in 1 .. 6 : Order[l] = Order[z] => l = z  BY OrderFacts
<1>5. IsSequence(file) /\ DOMAIN file = 1 .. L  BY SequenceDomain DEF OnDisk
<1> HIDE DEF w, W
<1>6. ASSUME NEW n \in 1 .. 6, NEW default
      PROVE  ReadSection(Order[n], default) = IF Has(n) THEN Body(r, n) ELSE default
  <2> DEFINE found == {k \in DOMAIN file : file[k].kind = Order[n]}
  <2>1. ReadSection(Order[n], default)
          = IF found = {} THEN default ELSE file[CHOOSE k \in found : TRUE].body
    BY DEF ReadSection
  <2>2. Has(n) <=> found # {}  BY <1>5 DEF Has
  <2>3. ASSUME NEW k \in found  PROVE file[k].body = Body(r, n)
    <3>1. k \in 1 .. L /\ file[k].kind = Order[n]  BY <1>5
    <3>2. PICK z \in 1 .. 6 : w[k] = [kind |-> Order[z], body |-> Body(r, z)]  BY <1>2, <1>3, <3>1
    <3>3. file[k] = w[k]  BY <1>1, <3>1
    <3>4. z = n  BY <1>4, <3>1, <3>2, <3>3
    <3> QED  BY <3>2, <3>3, <3>4
  <2> HIDE DEF found
  <2> QED  BY <2>1, <2>2, <2>3
<1>7. ASSUME NEW l \in 1 .. 6, NEW n \in 1 .. 6, l < n, Wanted(r, debug, l), Has(n)  PROVE Has(l)
  <2>1. PICK k \in 1 .. L : file[k].kind = Order[n]  BY <1>7 DEF Has
  <2>2. PICK j \in 1 .. W : w[j].kind = Order[l]  BY <1>2, <1>7
  <2>3. w[k].kind = Order[n] /\ k \in 1 .. W  BY <1>1, <1>3, <2>1
  <2>4. j < k  BY <1>2, <1>7, <2>2, <2>3
  <2>5. j \in 1 .. L  BY <1>1, <2>1, <2>2, <2>4
  <2> QED  BY <1>1, <2>2, <2>5 DEF Has
<1>8. file # <<>> => Has(1)
  <2> HAVE file # <<>>
  <2>1. L # 0
    <3> DEFINE f == file
    <3>1. IsSequence(f) /\ f # <<>>  BY <1>5
    <3> HIDE DEF f
    <3>2. Len(f) # 0  BY <3>1 DEF IsSequence
    <3> QED  BY <3>2 DEF f
  <2>2. 1 \in 1 .. L  BY <1>1, <2>1
  <2>3. PICK z \in 1 .. 6 : w[1] = [kind |-> Order[z], body |-> Body(r, z)]  BY <1>2, <1>3, <2>2
  <2>4. Wanted(r, debug, 1)  BY DEF Wanted
  <2>5. PICK j \in 1 .. W : w[j].kind = Order[1]  BY <1>2, <2>4
  <2>6. ~(j < 1)  BY <2>5
  <2>7. ~(1 < z) \/ FALSE
    <3>1. w[1].kind = Order[z] /\ 1 \in 1 .. W  BY <1>3, <2>2, <2>3
    <3>2. j < 1 <=> 1 < z  BY <1>2, <2>5, <3>1
    <3> QED  BY <2>6, <3>2
  <2>8. z = 1  BY <2>3, <2>7
  <2>9. file[1].kind = Order[1]  BY <1>1, <2>2, <2>3, <2>8
  <2> QED  BY <2>2, <2>9 DEF Has
<1>9. ASSUME unwritten = <<>>, NEW n \in 1 .. 6, Wanted(r, debug, n)  PROVE Has(n)
  BY <1>1, <1>2, <1>9 DEF Has
<1> QED  BY <1>6, <1>7, <1>8, <1>9

(***************************************************************************)
(* From the image on disk to the program.                                  *)
(***************************************************************************)
\* What a program assembles to.
AssemblyOf(p, r, strip) ==
    /\ Assembles(p, strip)
    /\ r = [words |-> Words(p.code, strip), symbols |-> Symbols(p.code),
            entry |-> EntryPoint(p.code, strip), data |-> p.data, shared |-> p.shared,
            private |-> p.private, qubits |-> p.qubits, threads |-> p.threads]

\* What the image on disk says of a program.
Kinship(p, strip) ==
    /\ Loading(p, strip, Image.symbols, Decoded(Image))
    /\ LoadBinary.code = Reloaded(Decoded(Image))

\* The instructions on disk are those of the program.
LEMMA ImageRead ==
  ASSUME NEW p, NEW strip \in BOOLEAN, NEW r, AssemblyOf(p, r, strip), NEW debug, OnDisk(r, debug), file # <<>>
  PROVE  Kinship(p, strip)
<1> DEFINE code == p.code
           K == WordPlaces(code, strip)
           M == Cardinality(K)
           w == Words(code, strip)
           y == Image.symbols
           d == Decoded(Image)
<1>1. /\ Assembles(p, strip) /\ r.words = w /\ r.symbols = Symbols(code)
  BY DEF AssemblyOf
<1>2. /\ \A n \in 1 .. 6 : \A default :
            ReadSection(Order[n], default) = IF Has(n) THEN Body(r, n) ELSE default
      /\ Has(1)
  BY SectionsRead
<1>3. Image.code = ReadSection("code", Missing) /\ y = ReadSection("debug", <<>>)
  BY DEF Image
<1>4. Image.code = Body(r, 1)
  <2>1. ReadSection(Order[1], Missing) = Body(r, 1)  BY <1>2
  <2> QED  BY <1>3, <2>1, OrderFacts
<1>5. Image.code.words = w
  <2>1. Body(r, 1) = [words |-> r.words, entry |-> r.entry]  BY DEF Body
  <2> HIDE DEF w
  <2> QED  BY <1>1, <1>4, <2>1
<1>6. y = <<>> \/ y = Symbols(code)
  <2>1. ReadSection(Order[6], <<>>) = IF Has(6) THEN Body(r, 6) ELSE <<>>  BY <1>2
  <2>2. Body(r, 6) = r.symbols  BY DEF Body
  <2> QED  BY <1>1, <1>3, <2>1, <2>2, OrderFacts
<1>7. /\ DOMAIN w = 1 .. M
      /\ \A n \in 1 .. M : DecodedFrom(code, Nth(K, n), strip, y, Decode(w[n], y))
  BY <1>1, WordsDecoded
<1>8. d = [n \in 1 .. M |-> Decode(w[n], y)]
  <2>1. d = [n \in DOMAIN Image.code.words |-> Decode(Image.code.words[n], y)]  BY DEF Decoded
  <2> HIDE DEF d, w, y, M
  <2> QED  BY <1>5, <1>7, <2>1
<1>9. d = [n \in 1 .. M |-> d[n]] /\ \A n \in 1 .. M : d[n] = Decode(w[n], y)
  <2> HIDE DEF w, y, M
  <2> QED  BY <1>8
<1>10. FromWords(code, strip, y, d)
  <2> HIDE DEF d, w, y
  <2>1. \A n \in 1 .. M : DecodedFrom(code, Nth(K, n), strip, y, d[n])  BY <1>7, <1>9
  <2> QED  BY <1>9, <2>1 DEF FromWords
<1>11. Loading(p, strip, y, d)
  <2> HIDE DEF d, y
  <2> QED  BY <1>1, <1>6, <1>10 DEF Loading
<1>12. LoadBinary.code = Reloaded(d)  BY DEF LoadBinary, Reloaded
<1> QED  BY <1>11, <1>12 DEF Kinship

\* The sections that a loader finds.
SectionsLoaded(p, l) ==
    /\ unwritten = <<>> => /\ l.data = p.data /\ l.shared = p.shared /\ l.private = p.private
                           /\ l.qubits = p.qubits /\ l.threads = p.threads
    /\ l.private # 0 => l.shared = p.shared
    /\ l.shared # 0 => l.data = p.data /\ l.threads = p.threads /\ l.qubits = p.qubits

\* The sections on disk are those of the program, up to one of them.
LEMMA SectionsInOrder ==
  ASSUME NEW p, NEW strip, NEW r, AssemblyOf(p, r, strip), NEW debug, OnDisk(r, debug)
  PROVE  SectionsLoaded(p, LoadBinary)
<1> DEFINE l == LoadBinary
           j == Image.metadata
           none == [qubits |-> 0, threads |-> 0]
<1>1. /\ p.private \in Nat
      /\ r.data = p.data /\ r.shared = p.shared /\ r.private = p.private
      /\ r.qubits = p.qubits /\ r.threads = p.threads
  BY DEF AssemblyOf, Assembles
<1>2. /\ \A n \in 1 .. 6 : \A default :
            ReadSection(Order[n], default) = IF Has(n) THEN Body(r, n) ELSE default
      /\ \A x, n \in 1 .. 6 : x < n /\ Wanted(r, debug, x) /\ Has(n) => Has(x)
      /\ unwritten = <<>> => \A n \in 1 .. 6 : Wanted(r, debug, n) => Has(n)
  BY SectionsRead
<1>3. /\ l.data = ReadSection("data", 0) /\ l.shared = ReadSection("shared", 0)
      /\ l.private = ReadSection("private", 0)
      /\ j = ReadSection("metadata", none) /\ l.qubits = j.qubits /\ l.threads = j.threads
  BY DEF LoadBinary, Image
<1>4. /\ Body(r, 2) = r.data /\ Body(r, 4) = r.shared /\ Body(r, 5) = r.private
      /\ Body(r, 3) = [qubits |-> r.qubits, threads |-> r.threads]
  BY DEF Body
<1>5. /\ Wanted(r, debug, 2) <=> r.data # 0
      /\ Wanted(r, debug, 3)
      /\ Wanted(r, debug, 4) <=> r.shared # 0
      /\ Wanted(r, debug, 5) <=> r.private > 0
  BY DEF Wanted
<1> HIDE DEF l, j
<1>6. /\ l.data = IF Has(2) THEN p.data ELSE 0
      /\ j = IF Has(3) THEN [qubits |-> r.qubits, threads |-> r.threads] ELSE none
      /\ l.shared = IF Has(4) THEN p.shared ELSE 0
      /\ l.private = IF Has(5) THEN p.private ELSE 0
  <2>1. /\ ReadSection(Order[2], 0) = IF Has(2) THEN Body(r, 2) ELSE 0
        /\ ReadSection(Order[3], none) = IF Has(3) THEN Body(r, 3) ELSE none
        /\ ReadSection(Order[4], 0) = IF Has(4) THEN Body(r, 4) ELSE 0
        /\ ReadSection(Order[5], 0) = IF Has(5) THEN Body(r, 5) ELSE 0
    <3> HIDE DEF none
    <3> QED  BY <1>2
  <2> HIDE DEF none
  <2> QED  BY <1>1, <1>3, <1>4, <2>1, OrderFacts
<1>7. Has(3) => l.qubits = p.qubits /\ l.threads = p.threads  BY <1>1, <1>3, <1>6
<1>8. /\ p.data # 0 /\ Has(4) => Has(2)
      /\ Has(4) => Has(3)
      /\ p.shared # 0 /\ Has(5) => Has(4)
  <2>1. Wanted(r, debug, 2) /\ Has(4) => Has(2)  BY <1>2
  <2>2. Wanted(r, debug, 3) /\ Has(4) => Has(3)  BY <1>2
  <2>3. Wanted(r, debug, 4) /\ Has(5) => Has(4)  BY <1>2
  <2> QED  BY <1>1, <1>5, <2>1, <2>2, <2>3
<1>9. unwritten = <<>> => /\ p.data # 0 => Has(2)
                          /\ Has(3)
                          /\ p.shared # 0 => Has(4)
                          /\ p.private # 0 => Has(5)
  <2> HAVE unwritten = <<>>
  <2>1. /\ Wanted(r, debug, 2) => Has(2)
        /\ Wanted(r, debug, 3) => Has(3)
        /\ Wanted(r, debug, 4) => Has(4)
        /\ Wanted(r, debug, 5) => Has(5)
    BY <1>2
  <2>2. p.private # 0 => p.private > 0  BY <1>1
  <2> QED  BY <1>1, <1>5, <2>1, <2>2
<1>10. SectionsLoaded(p, l)
  <2>1. unwritten = <<>> => /\ l.data = p.data /\ l.shared = p.shared /\ l.private = p.private
                            /\ l.qubits = p.qubits /\ l.threads = p.threads
    BY <1>6, <1>7, <1>9
  <2>2. l.private # 0 => l.shared = p.shared  BY <1>6, <1>8
  <2>3. l.shared # 0 => l.data = p.data /\ l.threads = p.threads /\ l.qubits = p.qubits
    BY <1>6, <1>7, <1>8
  <2> QED  BY <2>1, <2>2, <2>3 DEF SectionsLoaded
<1> QED  BY <1>10 DEF l

\* Writing a section takes the first of what is left.
LEMMA SectionMoved ==
  ASSUME NEW f, NEW u, IsSequence(f), IsSequence(u), u # <<>>
  PROVE  /\ IsSequence(Append(f, Head(u))) /\ IsSequence(Tail(u))
         /\ Append(f, Head(u)) \o Tail(u) = f \o u
<1> DEFINE S == {f[k] : k \in 1 .. Len(f)} \cup {u[k] : k \in 1 .. Len(u)}
<1>1. f \in Seq(S) /\ Len(f) \in Nat
  <2>1. \A k \in 1 .. Len(f) : f[k] \in S  OBVIOUS
  <2> QED  BY <2>1, SequenceType
<1>2. u \in Seq(S)
  <2>1. \A k \in 1 .. Len(u) : u[k] \in S  OBVIOUS
  <2> QED  BY <2>1, SequenceType
<1> HIDE DEF S
<1> DEFINE h == Head(u)
           t == Tail(u)
           g == Append(f, h)
<1>3. h \in S /\ t \in Seq(S) /\ h = u[1] /\ Len(t) = Len(u) - 1 /\ \A k \in 1 .. Len(t) : t[k] = u[k + 1]
  BY <1>2, HeadTailProperties
<1>4. g \in Seq(S) /\ Len(g) = Len(f) + 1 /\ (\A k \in 1 .. Len(f) : g[k] = f[k]) /\ g[Len(f) + 1] = h
  <2> HIDE DEF h
  <2> QED  BY <1>1, <1>3, AppendProperties
<1>5. IsSequence(g) /\ IsSequence(t)
  <2> HIDE DEF g, t
  <2> QED  BY <1>3, <1>4, IsSequenceOf
<1> DEFINE a == g \o t
           b == f \o u
<1>6. /\ a \in Seq(S) /\ Len(a) = Len(g) + Len(t)
      /\ \A k \in 1 .. Len(g) + Len(t) : a[k] = IF k <= Len(g) THEN g[k] ELSE t[k - Len(g)]
  <2> HIDE DEF g, t
  <2> QED  BY <1>3, <1>4, ConcatProperties
<1>7. /\ b \in Seq(S) /\ Len(b) = Len(f) + Len(u)
      /\ \A k \in 1 .. Len(f) + Len(u) : b[k] = IF k <= Len(f) THEN f[k] ELSE u[k - Len(f)]
  BY <1>1, <1>2, ConcatProperties
<1>8. Len(f) \in Nat /\ Len(u) \in Nat /\ Len(u) >= 1
  <2>1. Len(u) \in Nat  BY <1>2
  <2>2. Len(u) # 0  BY <1>2
  <2> QED  BY <1>1, <2>1, <2>2
<1> HIDE DEF a, b, g, t, h
<1>9. Len(a) = Len(b) /\ Len(b) = Len(f) + Len(u)  BY <1>3, <1>4, <1>6, <1>7, <1>8
<1>10. ASSUME NEW k \in 1 .. Len(a)  PROVE a[k] = b[k]
  <2>1. CASE k <= Len(f)
    <3>1. k \in 1 .. Len(f) /\ k \in 1 .. Len(g) + Len(t) /\ k <= Len(g) /\ k \in 1 .. Len(f) + Len(u)
      BY <1>3, <1>4, <1>8, <1>9, <2>1
    <3> QED  BY <1>4, <1>6, <1>7, <2>1, <3>1
  <2>2. CASE k = Len(f) + 1
    <3>1. k \in 1 .. Len(g) + Len(t) /\ k <= Len(g) /\ k \in 1 .. Len(f) + Len(u) /\ ~(k <= Len(f)) /\ k - Len(f) = 1
      BY <1>3, <1>4, <1>8, <1>9, <2>2
    <3> QED  BY <1>3, <1>4, <1>6, <1>7, <2>2, <3>1
  <2>3. CASE k > Len(f) + 1
    <3>1. k \in 1 .. Len(g) + Len(t) /\ ~(k <= Len(g)) /\ k \in 1 .. Len(f) + Len(u) /\ ~(k <= Len(f))
      BY <1>3, <1>4, <1>8, <1>9, <2>3
    <3>2. k - Len(g) \in 1 .. Len(t) /\ k - Len(g) + 1 = k - Len(f)
      BY <1>3, <1>4, <1>8, <1>9, <2>3
    <3> QED  BY <1>3, <1>6, <1>7, <3>1, <3>2
  <2>4. k \in Int  OBVIOUS
  <2> QED  BY <1>8, <2>1, <2>2, <2>3, <2>4
<1>11. a = b  BY <1>6, <1>7, <1>9, <1>10, SeqEqual
<1> QED  BY <1>5, <1>11 DEF a, b, g, t, h

(***************************************************************************)
(* The tool chain.                                                         *)
(***************************************************************************)
\* How far the tool chain has come, and what it has made so far.
ProgramWhole == stage \in {"parsed", "assembled", "writing", "written"} =>
                    ProperCode(parsed.code) /\ parsed.private \in Nat
AssemblyWhole == stage \in {"assembled", "writing", "written"} =>
                     \E strip \in BOOLEAN : AssemblyOf(parsed, result, strip)
DiskWhole ==
    /\ torn \in BOOLEAN
    /\ stage \notin {"writing", "written"} => file = <<>> /\ torn = FALSE
    /\ stage = "writing" => torn = FALSE /\ unwritten # <<>>
    /\ stage \in {"writing", "written"} /\ torn = FALSE => \E debug \in BOOLEAN : OnDisk(result, debug)
Disassembly == [lines |-> [k \in DOMAIN Decoded(Image) |-> Format(Decoded(Image)[k])]]
ReadersWhole ==
    /\ stage # "written" => loaded = Missing /\ listing = Missing
    /\ loaded # Missing => torn = FALSE /\ file # <<>> /\ loaded = LoadBinary
    /\ listing # Missing => torn = FALSE /\ file # <<>> /\ listing = Disassembly
Whole == source \in Sources /\ ProgramWhole /\ AssemblyWhole /\ DiskWhole /\ ReadersWhole

\* Nothing has been made yet.
LEMMA WholeInitially == ToolchainInit => Whole
<1> SUFFICES ASSUME ToolchainInit  PROVE Whole  OBVIOUS
<1>1. /\ source \in Sources /\ stage = "source" /\ file = <<>> /\ torn = FALSE
      /\ loaded = Missing /\ listing = Missing
  BY DEF ToolchainInit
<1>2. ProgramWhole /\ AssemblyWhole  BY <1>1 DEF ProgramWhole, AssemblyWhole
<1>3. DiskWhole  BY <1>1 DEF DiskWhole
<1>4. ReadersWhole  BY <1>1 DEF ReadersWhole
<1> QED  BY <1>1, <1>2, <1>3, <1>4 DEF Whole

\* An image has at least one section.
LEMMA ImageStarted ==
  ASSUME NEW r, NEW debug
  PROVE  LET w == WriteCqb(r, debug) IN IsSequence(w) /\ w # <<>> /\ <<>> \o w = w /\ IsSequence(<<>>)
<1> DEFINE w == WriteCqb(r, debug)
<1>1. Recorded(w, r, debug, 6)  BY ImageWritten
<1>2. Wanted(r, debug, 1)  BY DEF Wanted
<1> HIDE DEF w
<1>3. IsSequence(w) /\ \E k \in 1 .. Len(w) : w[k].kind = Order[1]
  BY <1>1, <1>2 DEF Recorded
<1>4. w \in Seq({w[k] : k \in 1 .. Len(w)})
  <2>1. \A k \in 1 .. Len(w) : w[k] \in {w[i] : i \in 1 .. Len(w)}  OBVIOUS
  <2> QED  BY <1>3, <2>1, SequenceType
<1>5. <<>> \o w = w  BY <1>4, ConcatEmptySeq
<1>6. w # <<>>
  <2>1. Len(w) # 0  BY <1>3, SequenceDomain
  <2> QED  BY <2>1
<1>7. IsSequence(<<>>)  BY DEF IsSequence
<1> QED  BY <1>3, <1>5, <1>6, <1>7 DEF w

\* What a step leaves alone keeps what is said of it.
LEMMA ReadersKept ==
  ASSUME UNCHANGED <<file, torn>>
  PROVE  LoadBinary' = LoadBinary /\ Disassembly' = Disassembly
<1>1. Image' = Image  BY DEF Image, ReadSection
<1>2. Decoded(Image)' = Decoded(Image)
  <2>1. Decoded(Image)' = Decoded(Image')  BY DEF Decoded
  <2> QED  BY <1>1, <2>1
<1> QED  BY <1>1, <1>2 DEF LoadBinary, Disassembly

\* Every step keeps it.
LEMMA WholeKept == Whole /\ [ToolchainNext]_toolchainVars => Whole'
<1> SUFFICES ASSUME Whole, [ToolchainNext]_toolchainVars  PROVE Whole'  OBVIOUS
<1>1. source \in Sources /\ ProgramWhole /\ AssemblyWhole /\ DiskWhole /\ ReadersWhole  BY DEF Whole
<1>2. CASE ParseSource
  <2>1. /\ stage = "source" /\ parsed' = ParseProgram(source)
        /\ stage' = IF parsed' = Missing THEN "rejected" ELSE "parsed"
        /\ UNCHANGED <<source, result, unwritten, file, torn, loaded, listing>>
    BY <1>2 DEF ParseSource
  <2>2. ProgramWhole'
    <3>1. stage' = "parsed" => parsed' # Missing  BY <2>1
    <3>2. parsed' # Missing => ProperCode(parsed'.code) /\ parsed'.private \in Nat
      BY <1>1, <2>1, ParsedProper
    <3>3. stage' \in {"parsed", "assembled", "writing", "written"} => stage' = "parsed"  BY <2>1
    <3> QED  BY <3>1, <3>2, <3>3 DEF ProgramWhole
  <2>3. stage' = "rejected" \/ stage' = "parsed"  BY <2>1
  <2>4. AssemblyWhole'  BY <2>3 DEF AssemblyWhole
  <2>5. DiskWhole'  BY <1>1, <2>1, <2>3 DEF DiskWhole
  <2>6. ReadersWhole'  BY <1>1, <2>1 DEF ReadersWhole
  <2> QED  BY <1>1, <2>1, <2>2, <2>4, <2>5, <2>6 DEF Whole
<1>3. ASSUME NEW strip \in BOOLEAN, Assemble(strip)  PROVE Whole'
  <2>1. /\ stage = "parsed" /\ result' = Assembled(parsed, strip)
        /\ stage' = IF result' = Missing THEN "rejected" ELSE "assembled"
        /\ UNCHANGED <<source, parsed, unwritten, file, torn, loaded, listing>>
    BY <1>3 DEF Assemble
  <2>2. stage' = "rejected" \/ (stage' = "assembled" /\ result' # Missing)  BY <2>1
  <2>3. ProperCode(parsed.code) /\ parsed.private \in Nat  BY <1>1, <2>1 DEF ProgramWhole
  <2>4. ProgramWhole'  BY <2>1, <2>3 DEF ProgramWhole
  <2>5. result' # Missing => AssemblyOf(parsed', result', strip)
    BY <2>1, <2>3, AssembledFacts DEF AssemblyOf
  <2>6. AssemblyWhole'
    <3>1. stage' \in {"assembled", "writing", "written"} => result' # Missing  BY <2>2
    <3> QED  BY <2>5, <3>1 DEF AssemblyWhole
  <2>7. DiskWhole'  BY <1>1, <2>1, <2>2 DEF DiskWhole
  <2>8. ReadersWhole'  BY <1>1, <2>1 DEF ReadersWhole
  <2> QED  BY <1>1, <2>1, <2>4, <2>6, <2>7, <2>8 DEF Whole
<1>4. ASSUME NEW debug \in BOOLEAN, OpenFile(debug)  PROVE Whole'
  <2>1. /\ stage = "assembled" /\ unwritten' = WriteCqb(result, debug) /\ stage' = "writing"
        /\ UNCHANGED <<source, parsed, result, file, torn, loaded, listing>>
    BY <1>4 DEF OpenFile
  <2>2. ProgramWhole' /\ AssemblyWhole'  BY <1>1, <2>1 DEF ProgramWhole, AssemblyWhole
  <2>3. file = <<>> /\ torn = FALSE  BY <1>1, <2>1 DEF DiskWhole
  <2>4. DiskWhole'
    <3>1. /\ IsSequence(unwritten') /\ unwritten' # <<>> /\ IsSequence(file')
          /\ file' \o unwritten' = unwritten'
      <4> DEFINE w == WriteCqb(result, debug)
      <4>1. IsSequence(w) /\ w # <<>> /\ <<>> \o w = w /\ IsSequence(<<>>)  BY ImageStarted
      <4> HIDE DEF w
      <4>2. unwritten' = w /\ file' = <<>>  BY <2>1, <2>3 DEF w
      <4> QED  BY <4>1, <4>2
    <3>2. OnDisk(result, debug)'
      <4>1. unwritten' = WriteCqb(result', debug)  BY <2>1
      <4> QED  BY <3>1, <4>1 DEF OnDisk
    <3> QED  BY <2>1, <2>3, <3>1, <3>2 DEF DiskWhole
  <2>5. ReadersWhole'  BY <1>1, <2>1 DEF ReadersWhole
  <2> QED  BY <1>1, <2>1, <2>2, <2>4, <2>5 DEF Whole
<1>5. CASE WriteSection
  <2>1. /\ stage = "writing" /\ file' = Append(file, Head(unwritten)) /\ unwritten' = Tail(unwritten)
        /\ stage' = IF unwritten' = <<>> THEN "written" ELSE "writing"
        /\ UNCHANGED <<source, parsed, result, torn, loaded, listing>>
    BY <1>5 DEF WriteSection
  <2>2. stage' \in {"writing", "written"} /\ (stage' = "writing" => unwritten' # <<>>)  BY <2>1
  <2>3. ProgramWhole' /\ AssemblyWhole'  BY <1>1, <2>1, <2>2 DEF ProgramWhole, AssemblyWhole
  <2>4. torn = FALSE /\ unwritten # <<>>  BY <1>1, <2>1 DEF DiskWhole
  <2>5. PICK debug \in BOOLEAN : OnDisk(result, debug)  BY <1>1, <2>1, <2>4 DEF DiskWhole
  <2>6. OnDisk(result, debug)'
    <3>1. IsSequence(file) /\ IsSequence(unwritten) /\ file \o unwritten = WriteCqb(result, debug)
      BY <2>5 DEF OnDisk
    <3>2. IsSequence(file') /\ IsSequence(unwritten') /\ file' \o unwritten' = file \o unwritten
      BY <2>1, <2>4, <3>1, SectionMoved
    <3>3. WriteCqb(result, debug) = WriteCqb(result', debug)  BY <2>1
    <3> QED  BY <3>1, <3>2, <3>3 DEF OnDisk
  <2>7. DiskWhole'  BY <2>1, <2>2, <2>4, <2>6 DEF DiskWhole
  <2>8. ReadersWhole'  BY <1>1, <2>1 DEF ReadersWhole
  <2> QED  BY <1>1, <2>1, <2>3, <2>7, <2>8 DEF Whole
<1>6. ASSUME NEW inside \in BOOLEAN, WriteFails(inside)  PROVE Whole'
  <2>1. /\ stage = "writing" /\ file' = (IF inside THEN Append(file, Head(unwritten)) ELSE file)
        /\ torn' = inside /\ stage' = "written"
        /\ UNCHANGED <<source, parsed, result, unwritten, loaded, listing>>
    BY <1>6 DEF WriteFails
  <2>2. ProgramWhole' /\ AssemblyWhole'  BY <1>1, <2>1 DEF ProgramWhole, AssemblyWhole
  <2>3. DiskWhole'
    <3>1. ASSUME torn' = FALSE  PROVE \E debug \in BOOLEAN : OnDisk(result, debug)'
      <4>1. PICK debug \in BOOLEAN : OnDisk(result, debug)  BY <1>1, <2>1 DEF DiskWhole
      <4>2. file' = file /\ unwritten' = unwritten /\ result' = result  BY <2>1, <3>1
      <4>3. OnDisk(result, debug)'  BY <4>1, <4>2 DEF OnDisk
      <4> QED  BY <4>3
    <3> QED  BY <2>1, <3>1 DEF DiskWhole
  <2>4. ReadersWhole'  BY <1>1, <2>1 DEF ReadersWhole
  <2> QED  BY <1>1, <2>1, <2>2, <2>3, <2>4 DEF Whole
<1>7. ASSUME UNCHANGED <<source, stage, parsed, result, unwritten, file, torn>>
      PROVE  /\ ProgramWhole' /\ AssemblyWhole' /\ DiskWhole'
             /\ LoadBinary' = LoadBinary /\ Disassembly' = Disassembly
  <2>1. ProgramWhole' /\ AssemblyWhole'  BY <1>1, <1>7 DEF ProgramWhole, AssemblyWhole
  <2>2. \A debug : OnDisk(result, debug) => OnDisk(result, debug)'  BY <1>7 DEF OnDisk
  <2>3. DiskWhole'  BY <1>1, <1>7, <2>2 DEF DiskWhole
  <2> QED  BY <1>7, <2>1, <2>3, ReadersKept
<1>8. CASE Load
  <2>1. /\ stage = "written" /\ ~ReadError /\ loaded' = LoadBinary
        /\ UNCHANGED <<source, stage, parsed, result, unwritten, file, torn, listing>>
    BY <1>8 DEF Load
  <2>2. ~torn /\ file # <<>>  BY <2>1 DEF ReadError
  <2>3. torn = FALSE  BY <1>1, <2>1, <2>2 DEF DiskWhole
  <2>4. ReadersWhole'  BY <1>1, <1>7, <2>1, <2>2, <2>3 DEF ReadersWhole
  <2> QED  BY <1>1, <1>7, <2>1, <2>4 DEF Whole
<1>9. CASE Disassemble
  <2>1. /\ stage = "written" /\ ~ReadError /\ listing' = Disassembly
        /\ UNCHANGED <<source, stage, parsed, result, unwritten, file, torn, loaded>>
    BY <1>9 DEF Disassemble, Disassembly
  <2>2. ~torn /\ file # <<>>  BY <2>1 DEF ReadError
  <2>3. torn = FALSE  BY <1>1, <2>1, <2>2 DEF DiskWhole
  <2>4. ReadersWhole'  BY <1>1, <1>7, <2>1, <2>2, <2>3 DEF ReadersWhole
  <2> QED  BY <1>1, <1>7, <2>1, <2>4 DEF Whole
<1>10. CASE UNCHANGED toolchainVars
  <2>1. UNCHANGED <<source, stage, parsed, result, unwritten, file, torn, loaded, listing>>
    BY <1>10 DEF toolchainVars
  <2>2. ReadersWhole'  BY <1>1, <1>7, <2>1 DEF ReadersWhole
  <2> QED  BY <1>1, <1>7, <2>1, <2>2 DEF Whole
<1> QED  BY <1>2, <1>3, <1>4, <1>5, <1>6, <1>8, <1>9, <1>10 DEF ToolchainNext

\* An invariant: every stage holds what the stages before it have made.
LEMMA WholeAlways == ToolchainSpec => []Whole
<1> QED  BY WholeInitially, WholeKept, PTL DEF ToolchainSpec

\* It implies that the loader returns the program.
LEMMA WholeLoads == Whole => LoadsWhatWasWritten /\ JumpsKeepTarget
<1> SUFFICES ASSUME Whole, loaded # Missing  PROVE LoadsWhatWasWritten /\ JumpsKeepTarget
  BY DEF LoadsWhatWasWritten, JumpsKeepTarget
<1> DEFINE d == Decoded(Image)
           y == Image.symbols
<1>1. stage = "written" /\ torn = FALSE /\ file # <<>> /\ loaded = LoadBinary
  BY DEF Whole, ReadersWhole
<1>2. PICK strip \in BOOLEAN : AssemblyOf(parsed, result, strip)  BY <1>1 DEF Whole, AssemblyWhole
<1>3. PICK debug \in BOOLEAN : OnDisk(result, debug)  BY <1>1 DEF Whole, DiskWhole
<1>4. Loading(parsed, strip, y, d) /\ loaded.code = Reloaded(d)
  BY <1>1, <1>2, <1>3, ImageRead DEF Kinship
<1>5. SectionsLoaded(parsed, loaded)  BY <1>1, <1>2, <1>3, SectionsInOrder
<1> HIDE DEF d, y
<1>6. SameSteps(Steps(parsed.code), Steps(loaded.code))
  <2>1. Assembles(parsed, strip) /\ FromWords(parsed.code, strip, y, d)  BY <1>4 DEF Loading
  <2> QED  BY <1>4, <2>1, LoadedSteps
<1>7. LoadsWhatWasWritten  BY <1>5, <1>6 DEF LoadsWhatWasWritten, SectionsLoaded, Complete
<1>8. BranchesAgree(parsed.code, loaded.code)  BY <1>4, LoadedBranches
<1>9. JumpsKeepTarget
  <2> DEFINE text == Steps(parsed.code)
             binary == Steps(loaded.code)
  <2>1. \A k \in DOMAIN text : text[k].op \in Jumps /\ ~Misled(loaded.code, binary[k]) =>
           Agrees(parsed.code, loaded.code, text[k], binary[k])
    BY <1>8 DEF BranchesAgree
  <2> HIDE DEF text, binary
  <2>2. \A k \in DOMAIN text : text[k].op \in Jumps /\ ~Misled(loaded.code, binary[k]) =>
           LET there == Destination(loaded.code, binary[k])
               here == Destination(parsed.code, text[k])
           IN  \/ there = Unresolved /\ text[k].op = "SETIV"
               \/ /\ there # Unresolved
                  /\ Landing(loaded.code, there) = Landing(parsed.code, here)
    BY <2>1 DEF Agrees
  <2> QED  BY <2>2 DEF JumpsKeepTarget, text, binary
<1> QED  BY <1>7, <1>9

\* What load_binary returns is what parse_program returned: the same
\* instructions and sections, and a beginning of them when writing stopped.
THEOREM BinaryIsTheProgram == ToolchainSpec => []LoadsWhatWasWritten
<1> QED  BY WholeAlways, WholeLoads, PTL

\* Through assemble_with_options, decode_with_debug and patch_target, a branch
\* of the loaded program lands on the instruction it lands on in the source.
THEOREM BranchesKeepTarget == ToolchainSpec => []JumpsKeepTarget
<1> QED  BY WholeAlways, WholeLoads, PTL

(***************************************************************************)
(* What the disassembler prints, the parser reads.                         *)
(***************************************************************************)
\* An instruction that the disassembler can print in full.
Printable(i) ==
    /\ Proper(i)
    /\ \A k \in 1 .. Len(Fields[i.op]) : Fields[i.op][k] \in {"Q", "H"} => i.f[k] < 8

\* The parser takes the value of every field as it is printed.
LEMMA PrintedAccepted ==
  ASSUME NEW kind \in Kinds, NEW v, InKind(kind, v), kind \in {"Q", "H"} => v < 8
  PROVE  Accepts(kind, Printed(kind, v)) /\ Value(Printed(kind, v)) = v
<1> DEFINE t == Printed(kind, v)
<1>1. CASE kind \in Files
  <2>0. kind \notin {"u8", "i8", "i16", "u16", "target", "name"} /\ kind \notin DOMAIN Ids
    BY <1>1, KindsApart
  <2>1. t = [reg |-> kind, n |-> v]
    <3>1. kind # "file"  BY <1>1 DEF Files
    <3> QED  BY <1>1, <2>0, <3>1 DEF Printed
  <2>2. "reg" \in DOMAIN t /\ "num" \notin DOMAIN t /\ "id" \notin DOMAIN t /\ t.reg = kind /\ t.n = v  BY <2>1
  <2>3. v \in Int /\ v <= 15  BY <1>1 DEF InKind, Between
  <2>4. kind \in {"R", "F", "Z"} \/ kind \in {"Q", "H"}  BY <1>1 DEF Files
  <2> HIDE DEF t
  <2>5. IsReg(t)
    <3>1. CASE kind \in {"R", "F", "Z"}  BY <2>2, <2>3, <3>1 DEF IsReg
    <3>2. CASE kind \in {"Q", "H"}
      <4>1. kind \notin {"R", "F", "Z"} /\ v < 8  BY <3>2
      <4> QED  BY <2>2, <4>1 DEF IsReg
    <3> QED  BY <2>4, <3>1, <3>2
  <2>6. Accepts(kind, t) /\ Value(t) = v  BY <1>1, <2>2, <2>5 DEF Accepts, Value
  <2> QED  BY <2>6 DEF t
<1>2. CASE kind \in {"u8", "i8", "i16", "u16"}
  <2>1. kind \notin Files /\ kind \notin DOMAIN Ids /\ kind \notin {"target", "name"}
    BY <1>2, KindsApart DEF Files
  <2>2. t = [num |-> v]  BY <1>2, <2>1 DEF Printed
  <2>3. "num" \in DOMAIN t /\ "reg" \notin DOMAIN t /\ "id" \notin DOMAIN t /\ t.num = v  BY <2>2
  <2> HIDE DEF t
  <2>4. \A lo, hi \in Int : Between(v, lo, hi) => IsNum(t, lo, hi)  BY <2>3 DEF Between, IsNum
  <2>5. /\ kind = "u8" => Between(v, 0, 255)
        /\ kind = "u16" => Between(v, 0, 65535)
        /\ kind = "i8" => Between(v, -128, 127)
        /\ kind = "i16" => Between(v, -32768, 32767)
    BY DEF InKind
  <2>6. /\ kind = "u8" => IsNum(t, 0, 255)
        /\ kind = "u16" => IsNum(t, 0, 65535)
        /\ kind = "i8" => IsNum(t, -128, 127)
        /\ kind = "i16" => IsNum(t, -32768, 32767)
    BY <2>4, <2>5
  <2>7. Accepts(kind, t)  BY <1>2, <2>6 DEF Accepts
  <2>8. Value(t) = v  BY <2>3 DEF Value
  <2> QED  BY <2>7, <2>8 DEF t
<1>3. CASE kind \in {"target", "name"}
  <2>1. kind \notin Files /\ kind \notin DOMAIN Ids /\ kind \notin {"u8", "i8", "i16", "u16"}
    BY <1>3, KindsApart DEF Files
  <2>2. t = [label |-> v]  BY <1>3, <2>1 DEF Printed
  <2>3. "label" \in DOMAIN t /\ "num" \notin DOMAIN t /\ "reg" \notin DOMAIN t /\ "id" \notin DOMAIN t /\ t.label = v
    BY <2>2
  <2> HIDE DEF t
  <2>6. Accepts(kind, t) /\ Value(t) = v  BY <1>3, <2>3 DEF Accepts, Value
  <2> QED  BY <2>6 DEF t
<1>4. CASE kind \in DOMAIN Ids /\ kind = "file"
  <2>1. kind \notin Files /\ kind \notin {"u8", "i8", "i16", "u16", "target", "name"}
    BY <1>4, KindsApart DEF Files
  <2>2. t = [num |-> v]  BY <1>4, <2>1 DEF Printed
  <2>3. "num" \in DOMAIN t /\ "reg" \notin DOMAIN t /\ "id" \notin DOMAIN t /\ t.num = v  BY <2>2
  <2>4. v \in Ids[kind]  BY <1>4 DEF InKind
  <2> HIDE DEF t
  <2>5. IsId(t, kind)  BY <2>3, <2>4 DEF IsId
  <2>6. Accepts(kind, t) /\ Value(t) = v  BY <1>4, <2>3, <2>5 DEF Accepts, Value
  <2> QED  BY <2>6 DEF t
<1>5. CASE kind \in DOMAIN Ids /\ kind # "file"
  <2>1. kind \notin Files /\ kind \notin {"u8", "i8", "i16", "u16", "target", "name"}
    BY <1>5, KindsApart
  <2>2. t = [id |-> <<kind, v>>]  BY <1>5, <2>1 DEF Printed
  <2>3. "id" \in DOMAIN t /\ "num" \notin DOMAIN t /\ "reg" \notin DOMAIN t /\ t.id[1] = kind /\ t.id[2] = v
    BY <2>2
  <2> HIDE DEF t
  <2>4. IsId(t, kind)  BY <1>5, <2>3 DEF IsId, Named
  <2>6. Accepts(kind, t) /\ Value(t) = v  BY <1>5, <2>3, <2>4 DEF Accepts, Value
  <2> QED  BY <2>6 DEF t
<1> QED  BY <1>1, <1>2, <1>3, <1>4, <1>5 DEF Kinds

\* The operands of an instruction, each as it is printed.
PrintedOperands(i) == [k \in DOMAIN i.f |-> Printed(Fields[i.op][k], i.f[k])]

\* The operands of an instruction are accepted, one by one.
LEMMA OperandsPrinted ==
  ASSUME NEW i, Printable(i)
  PROVE  LET n == Len(Fields[i.op])
             t == PrintedOperands(i)
         IN  /\ n \in 0 .. 5 /\ DOMAIN Fields[i.op] = 1 .. n
             /\ IsSequence(t) /\ Len(t) = n /\ DOMAIN t = 1 .. n /\ t = [k \in 1 .. n |-> t[k]]
             /\ \A k \in 1 .. n : /\ t[k] = Printed(Fields[i.op][k], i.f[k])
                                  /\ Accepts(Fields[i.op][k], t[k]) /\ Value(t[k]) = i.f[k]
<1> DEFINE n == Len(Fields[i.op])
           t == PrintedOperands(i)
           f == i.f
<1>1. Shaped(i)  BY DEF Printable, Proper
<1>2. n \in 0 .. 5 /\ DOMAIN Fields[i.op] = 1 .. n /\ \A k \in 1 .. n : Fields[i.op][k] \in Kinds
  BY <1>1, FieldKinds DEF Shaped
<1>3. f = [k \in 1 .. n |-> f[k]] /\ \A k \in 1 .. n : InKind(Fields[i.op][k], f[k])
  BY <1>1 DEF Shaped
<1>4. \A k \in 1 .. n : Fields[i.op][k] \in {"Q", "H"} => f[k] < 8  BY DEF Printable
<1>5. DOMAIN f = 1 .. n  BY <1>3
<1>6. t = [k \in 1 .. n |-> Printed(Fields[i.op][k], f[k])]  BY <1>5 DEF PrintedOperands
<1>7. t = [k \in 1 .. n |-> t[k]] /\ DOMAIN t = 1 .. n /\ \A k \in 1 .. n : t[k] = Printed(Fields[i.op][k], f[k])
  BY <1>6
<1> HIDE DEF t, f, n
<1>8. IsSequence(t) /\ Len(t) = n
  <2>1. n \in Nat  BY <1>2
  <2> QED  BY <1>7, <2>1, MakesSequence
<1>9. \A k \in 1 .. n : Accepts(Fields[i.op][k], t[k]) /\ Value(t[k]) = f[k]
  BY <1>2, <1>3, <1>4, <1>7, PrintedAccepted
<1> QED  BY <1>2, <1>7, <1>8, <1>9 DEF t, f, n

\* Tokens that are accepted with the values of an instruction are read as it.
LEMMA PlainReads ==
  ASSUME NEW i, Shaped(i), NEW toks, IsSequence(toks), Len(toks) = Len(Fields[i.op]),
         \A k \in 1 .. Len(Fields[i.op]) : Accepts(Fields[i.op][k], toks[k]) /\ Value(toks[k]) = i.f[k]
  PROVE  ParsePlain(i.op, toks) = i
<1> DEFINE n == Len(Fields[i.op])
           op == i.op
           f == i.f
           g == [k \in DOMAIN Fields[op] |-> Value(toks[k])]
<1>1. n \in 0 .. 5 /\ DOMAIN Fields[op] = 1 .. n  BY FieldKinds DEF Shaped
<1>2. i = [op |-> op, f |-> f] /\ f = [k \in 1 .. n |-> f[k]]  BY DEF Shaped
<1>3. CASE Fields[op] = <<>>
  <2>1. ParsePlain(op, toks) = [op |-> op, f |-> <<>>] /\ n = 0  BY <1>3 DEF ParsePlain
  <2>2. f = <<>>
    <3> HIDE DEF f
    <3>1. f = [k \in 1 .. 0 |-> f[k]]  BY <1>2, <2>1
    <3> QED  BY <3>1
  <2> HIDE DEF f, op
  <2> QED  BY <1>2, <2>1, <2>2 DEF op
<1>4. CASE Fields[op] # <<>>
  <2>1. ParsePlain(op, toks) = Instruction(op, Fields[op], toks)  BY <1>4 DEF ParsePlain
  <2>2. Instruction(op, Fields[op], toks) = [op |-> op, f |-> g]
    BY <1>1 DEF Instruction
  <2>3. g = [k \in 1 .. n |-> f[k]]  BY <1>1
  <2> HIDE DEF f, op, g, n
  <2>4. g = f  BY <1>2, <2>3
  <2> QED  BY <1>2, <2>1, <2>2, <2>4 DEF op
<1> QED  BY <1>3, <1>4

\* Printed in the order of the fields, they are read as the instruction.
LEMMA PlainReparses ==
  ASSUME NEW i, Printable(i)
  PROVE  ParsePlain(i.op, PrintedOperands(i)) = i
<1>1. Shaped(i)  BY DEF Printable, Proper
<1> QED  BY <1>1, OperandsPrinted, PlainReads

Reparses(i) ==
    LET back == Parse(Format(i))
    IN  back.op = i.op /\ Effective(back) = Effective(i)

\* The kernels, whose first operand is printed third.
LEMMA KernelReparses ==
  ASSUME NEW i, Printable(i), i.op \in KernelOps
  PROVE  ParseKernel(i.op, Format(i).toks) = i
<1> DEFINE t == PrintedOperands(i)
           there == <<3, 1, 2, 4, 5>>
           back == <<2, 3, 1, 4, 5>>
           toks == Rearranged(t, there)
           u == Rearranged(toks, back)
<1>1. Len(Fields[i.op]) = 5
  <2>1. \A op \in KernelOps : Len(Fields[op]) = 5  BY TablesAssumption, Zenon
  <2> QED  BY <2>1
<1>2. t = [k \in 1 .. 5 |-> t[k]] /\ DOMAIN t = 1 .. 5 /\ Len(t) = 5  BY <1>1, OperandsPrinted
<1>3. PrintOrder(i.op) = there /\ i.op # "QOBSERVE"
  BY DEF PrintOrder, KernelOps
<1>4. Format(i).toks = toks  BY <1>3 DEF Format, PrintedOperands
<1>5. ParsePlain(i.op, t) = i  BY PlainReparses
<1> HIDE DEF t
<1>6. toks = [k \in 1 .. 5 |-> t[there[k]]]  BY <1>2 DEF Rearranged
<1>7. toks = [k \in 1 .. 5 |-> toks[k]] /\ DOMAIN toks = 1 .. 5 /\ \A k \in 1 .. 5 : toks[k] = t[there[k]]
  <2> HIDE DEF there
  <2> QED  BY <1>6
<1>8. /\ there[1] = 3 /\ there[2] = 1 /\ there[3] = 2 /\ there[4] = 4 /\ there[5] = 5
      /\ back[1] = 2 /\ back[2] = 3 /\ back[3] = 1 /\ back[4] = 4 /\ back[5] = 5
  OBVIOUS
<1> HIDE DEF toks, there, back
<1>9. Len(toks) = 5
  <2>1. 5 \in Nat  OBVIOUS
  <2> QED  BY <1>7, <2>1, MakesSequence
<1>10. u = [k \in 1 .. 5 |-> toks[back[k]]]  BY <1>7 DEF Rearranged
<1>11. u = [k \in 1 .. 5 |-> u[k]] /\ \A k \in 1 .. 5 : u[k] = toks[back[k]]  BY <1>10
<1> HIDE DEF u
<1>12. \A k \in 1 .. 5 : u[k] = t[k]
  <2>1. /\ toks[1] = t[3] /\ toks[2] = t[1] /\ toks[3] = t[2] /\ toks[4] = t[4] /\ toks[5] = t[5]
    BY <1>7, <1>8
  <2>2. /\ u[1] = toks[2] /\ u[2] = toks[3] /\ u[3] = toks[1] /\ u[4] = toks[4] /\ u[5] = toks[5]
    BY <1>8, <1>11
  <2>3. \A k \in 1 .. 5 : k = 1 \/ k = 2 \/ k = 3 \/ k = 4 \/ k = 5  OBVIOUS
  <2> QED  BY <2>1, <2>2, <2>3
<1>13. u = t  BY <1>2, <1>11, <1>12
<1> QED  BY <1>4, <1>5, <1>9, <1>13 DEF ParseKernel, u, back

\* The reduction, whose function is printed first.
LEMMA ReduceReparses ==
  ASSUME NEW i, Printable(i), i.op = "HREDUCE"
  PROVE  ParseReduce(Format(i).toks) = i
<1> DEFINE t == PrintedOperands(i)
           there == <<3, 1, 2>>
           back == <<2, 3, 1>>
           toks == Rearranged(t, there)
           u == Rearranged(toks, back)
<1>1. Len(Fields[i.op]) = 3
  <2>1. Len(Fields["HREDUCE"]) = 3  BY TablesAssumption, Zenon
  <2> QED  BY <2>1
<1>2. t = [k \in 1 .. 3 |-> t[k]] /\ DOMAIN t = 1 .. 3 /\ Len(t) = 3  BY <1>1, OperandsPrinted
<1>3. PrintOrder(i.op) = there /\ i.op # "QOBSERVE"
  BY DEF PrintOrder, KernelOps
<1>4. Format(i).toks = toks  BY <1>3 DEF Format, PrintedOperands
<1>5. ParsePlain("HREDUCE", t) = i  BY PlainReparses
<1> HIDE DEF t
<1>6. toks = [k \in 1 .. 3 |-> t[there[k]]]  BY <1>2 DEF Rearranged
<1>7. toks = [k \in 1 .. 3 |-> toks[k]] /\ DOMAIN toks = 1 .. 3 /\ \A k \in 1 .. 3 : toks[k] = t[there[k]]
  <2> HIDE DEF there
  <2> QED  BY <1>6
<1>8. /\ there[1] = 3 /\ there[2] = 1 /\ there[3] = 2
      /\ back[1] = 2 /\ back[2] = 3 /\ back[3] = 1
  OBVIOUS
<1> HIDE DEF toks, there, back
<1>9. Len(toks) = 3
  <2>1. 3 \in Nat  OBVIOUS
  <2> QED  BY <1>7, <2>1, MakesSequence
<1>10. u = [k \in 1 .. 3 |-> toks[back[k]]]  BY <1>7 DEF Rearranged
<1>11. u = [k \in 1 .. 3 |-> u[k]] /\ \A k \in 1 .. 3 : u[k] = toks[back[k]]  BY <1>10
<1> HIDE DEF u
<1>12. \A k \in 1 .. 3 : u[k] = t[k]
  <2>1. toks[1] = t[3] /\ toks[2] = t[1] /\ toks[3] = t[2]  BY <1>7, <1>8
  <2>2. u[1] = toks[2] /\ u[2] = toks[3] /\ u[3] = toks[1]  BY <1>8, <1>11
  <2>3. \A k \in 1 .. 3 : k = 1 \/ k = 2 \/ k = 3  OBVIOUS
  <2> QED  BY <2>1, <2>2, <2>3
<1>13. u = t  BY <1>2, <1>11, <1>12
<1> QED  BY <1>4, <1>5, <1>9, <1>13 DEF ParseReduce, u, back

\* All other mnemonics are printed in the order of their fields.
LEMMA InOrder ==
  ASSUME NEW i, Printable(i), i.op \notin KernelOps, i.op # "HREDUCE"
  PROVE  Format(i).toks = IF i.op = "QOBSERVE" THEN SubSeq(PrintedOperands(i), 1, ObserveLength(i.f))
                          ELSE PrintedOperands(i)
<1> DEFINE t == PrintedOperands(i)
           n == Len(Fields[i.op])
           order == PrintOrder(i.op)
<1>1. DOMAIN Fields[i.op] = 1 .. n /\ t = [k \in 1 .. n |-> t[k]] /\ DOMAIN t = 1 .. n  BY OperandsPrinted
<1>2. order = [k \in 1 .. n |-> k]
  <2>1. order = [k \in DOMAIN Fields[i.op] |-> k]  BY DEF PrintOrder
  <2> HIDE DEF order, n, t
  <2> QED  BY <1>1, <2>1
<1>3. Format(i).toks = IF i.op = "QOBSERVE" THEN SubSeq(Rearranged(t, order), 1, ObserveLength(i.f))
                       ELSE Rearranged(t, order)
  BY DEF Format, PrintedOperands
<1> HIDE DEF t, n, order
<1>4. Rearranged(t, order) = [k \in 1 .. n |-> t[order[k]]]  BY <1>1 DEF Rearranged
<1>5. \A k \in 1 .. n : order[k] = k  BY <1>2
<1>6. Rearranged(t, order) = [k \in 1 .. n |-> t[k]]  BY <1>4, <1>5
<1>7. Rearranged(t, order) = t  BY <1>1, <1>6
<1> QED  BY <1>3, <1>7 DEF t

\* The amplitudes still fit the Z file.
LEMMA PrepsReparses ==
  ASSUME NEW i, Printable(i), i.op = "QPREPS"
  PROVE  ParsePreps(Format(i).toks) = i
<1>1. Format(i).toks = PrintedOperands(i)  BY InOrder DEF KernelOps
<1>2. ParsePlain("QPREPS", PrintedOperands(i)) = i  BY PlainReparses
<1>3. i.f[2] + 2 * i.f[3] <= 8  BY DEF Printable, Proper, Checked
<1>4. i.f[2] \in Int /\ i.f[3] \in Int
  <2>1. Fields["QPREPS"] = <<"Q", "Z", "u8">>  BY TablesAssumption, Zenon
  <2>2. Fields[i.op][2] = "Z" /\ Fields[i.op][3] = "u8" /\ Len(Fields[i.op]) = 3  BY <2>1
  <2>3. \A k \in 1 .. Len(Fields[i.op]) : InKind(Fields[i.op][k], i.f[k])  BY DEF Printable, Proper, Shaped
  <2>4. InKind("Z", i.f[2]) /\ InKind("u8", i.f[3])  BY <2>2, <2>3
  <2> QED  BY <2>4 DEF InKind, Between, Files
<1>5. ~(i.f[2] + 2 * i.f[3] > 8)  BY <1>3, <1>4
<1> QED  BY <1>1, <1>2, <1>5 DEF ParsePreps

\* The registers still differ.
LEMMA XchReparses ==
  ASSUME NEW i, Printable(i), i.op = "QXCH"
  PROVE  ParseXch(Format(i).toks) = i
<1>1. Format(i).toks = PrintedOperands(i)  BY InOrder DEF KernelOps
<1>2. ParsePlain("QXCH", PrintedOperands(i)) = i  BY PlainReparses
<1>3. i.f[1] # i.f[2]  BY DEF Printable, Proper, Checked
<1> QED  BY <1>1, <1>2, <1>3 DEF ParseXch

\* Increments are printed with both operands.
LEMMA IntegerReparses ==
  ASSUME NEW i, Printable(i), i.op \notin KernelOps, i.op # "HREDUCE", i.op # "QOBSERVE"
  PROVE  ParseInteger(i.op, Format(i).toks) = i
<1> DEFINE t == PrintedOperands(i)
<1>1. Format(i).toks = t  BY InOrder
<1>2. ParsePlain(i.op, t) = i  BY PlainReparses
<1>3. i.op \in {"IINC", "IDEC"} => Len(t) = 2
  <2>1. Len(Fields["IINC"]) = 2 /\ Len(Fields["IDEC"]) = 2  BY TablesAssumption, Zenon
  <2>2. Len(t) = Len(Fields[i.op])  BY OperandsPrinted
  <2> HIDE DEF t
  <2> QED  BY <2>1, <2>2
<1> HIDE DEF t
<1>4. ~(i.op \in {"IINC", "IDEC"} /\ Len(t) = 1)  BY <1>3
<1> QED  BY <1>1, <1>2, <1>4 DEF ParseInteger

\* Only the last two operands of QOBSERVE are changed.
LEMMA OperativeFields ==
  ASSUME NEW f, f = [k \in 1 .. 5 |-> f[k]]
  PROVE  LET e == Operative(f)
         IN  /\ e = [k \in 1 .. 5 |-> e[k]]
             /\ e[1] = f[1] /\ e[2] = f[2] /\ e[3] = f[3] /\ e[4] = (IF f[3] = 1 THEN f[4] ELSE 0) /\ e[5] = 0
<1> DEFINE x == IF f[3] = 1 THEN f[4] ELSE 0
           e == [f EXCEPT ![4] = x, ![5] = 0]
<1>1. DOMAIN f = 1 .. 5  OBVIOUS
<1>2. Operative(f) = e  BY DEF Operative
<1> HIDE DEF x
<1>3. e = [k \in 1 .. 5 |-> e[k]] BY <1>1
<1>4. /\ e[1] = f[1] /\ e[2] = f[2] /\ e[3] = f[3] /\ e[4] = x /\ e[5] = 0
  BY <1>1
<1> QED  BY <1>2, <1>3, <1>4 DEF x

\* The contexts that are not printed are not read by execution.
LEMMA ObserveReparses ==
  ASSUME NEW i, Printable(i), i.op = "QOBSERVE"
  PROVE  LET back == ParseObserve(Format(i).toks)
         IN  back.op = i.op /\ Effective(back) = Effective(i)
<1> DEFINE f == i.f
           t == PrintedOperands(i)
           L == ObserveLength(f)
           defaults == <<[num |-> 0], [reg |-> "R", n |-> 0], [reg |-> "R", n |-> 0]>>
           D == {[num |-> 0], [reg |-> "R", n |-> 0]}
           s == SubSeq(t, 1, L)
           d == SubSeq(defaults, L - 1, 3)
           u == s \o d
           g == [k \in 1 .. 5 |-> IF k <= L THEN f[k] ELSE 0]
           j == [op |-> "QOBSERVE", f |-> g]
           F == Fields["QOBSERVE"]
<1>1. /\ F = <<"H", "Q", "mode", "R", "R">> /\ Ids.mode = {0, 1, 3} /\ "QOBSERVE" \in Mnemonics
      /\ "QOBSERVE" \notin KernelOps /\ "mode" \in DOMAIN Ids
  <2>1. F = <<"H", "Q", "mode", "R", "R">> /\ Ids.mode = {0, 1, 3}  BY TablesAssumption, Zenon
  <2>2. KernelOps \cup {"QOBSERVE", "QPREPS", "QXCH"} \subseteq Mnemonics  BY TablesAssumption, Zenon
  <2>3. "QOBSERVE" \notin KernelOps  BY DEF KernelOps
  <2>4. "mode" \in DOMAIN Ids  BY DEF Ids
  <2> QED  BY <2>1, <2>2, <2>3, <2>4
<1>2. Len(F) = 5 /\ F[1] = "H" /\ F[2] = "Q" /\ F[3] = "mode" /\ F[4] = "R" /\ F[5] = "R"  BY <1>1
<1> HIDE DEF F
<1>3. /\ i = [op |-> "QOBSERVE", f |-> f] /\ f = [k \in 1 .. 5 |-> f[k]]
      /\ \A k \in 1 .. 5 : InKind(F[k], f[k])
  BY <1>2 DEF Printable, Proper, Shaped, F
<1>4. f[3] \in {0, 1, 3}
  <2>1. InKind("mode", f[3])  BY <1>2, <1>3
  <2> QED  BY <1>1, <2>1 DEF InKind
<1>5. /\ L \in 2 .. 5
      /\ L = 2 => f[3] = 0 /\ f[4] = 0 /\ f[5] = 0
      /\ f[3] = 1 => L >= 4
  <2> HIDE DEF f
  <2>1. CASE f[3] = 0 /\ f[4] = 0 /\ f[5] = 0
    <3>1. L = 2  BY <2>1 DEF ObserveLength
    <3> QED  BY <2>1, <3>1
  <2>2. CASE f[3] = 3
    <3>1. L = 3  BY <2>2 DEF ObserveLength
    <3> QED  BY <2>2, <3>1
  <2>3. CASE f[3] = 1
    <3>1. L = 4  BY <2>3 DEF ObserveLength
    <3> QED  BY <2>3, <3>1
  <2>4. CASE f[3] = 0 /\ ~(f[4] = 0 /\ f[5] = 0)
    <3>1. L = 5  BY <2>4 DEF ObserveLength
    <3> QED  BY <2>4, <3>1
  <2> QED  BY <1>4, <2>1, <2>2, <2>3, <2>4
<1>6. /\ IsSequence(t) /\ Len(t) = 5
      /\ \A k \in 1 .. 5 : Accepts(F[k], t[k]) /\ Value(t[k]) = f[k]
  <2>1. Fields[i.op] = F  BY DEF F
  <2>2. LET n == Len(Fields[i.op])
        IN  /\ IsSequence(t) /\ Len(t) = n
            /\ \A k \in 1 .. n : Accepts(Fields[i.op][k], t[k]) /\ Value(t[k]) = i.f[k]
    BY OperandsPrinted
  <2> HIDE DEF t
  <2> QED  BY <1>2, <2>1, <2>2
<1>7. Format(i).toks = s  BY <1>1, InOrder
<1>8. Len(defaults) = 3 /\ defaults[1] = [num |-> 0]
      /\ \A k \in 2 .. 3 : defaults[k] = [reg |-> "R", n |-> 0]
  <2>1. Len(defaults) = 3 /\ defaults[1] = [num |-> 0] /\ defaults[2] = [reg |-> "R", n |-> 0]
        /\ defaults[3] = [reg |-> "R", n |-> 0]
    OBVIOUS
  <2>2. \A k \in 2 .. 3 : k = 2 \/ k = 3  OBVIOUS
  <2> HIDE DEF defaults
  <2> QED  BY <2>1, <2>2
<1> HIDE DEF defaults, t, L, f
<1>9. IsSequence(s) /\ Len(s) = L /\ \A k \in 1 .. L : s[k] = t[k]
  <2> DEFINE S == {t[k] : k \in 1 .. 5}
  <2>1. \A k \in 1 .. L : t[k] \in S  BY <1>5
  <2> HIDE DEF S
  <2>2. /\ s \in Seq(S) /\ Len(s) = (IF 1 <= L THEN L - 1 + 1 ELSE 0)
        /\ \A k \in 1 .. L - 1 + 1 : s[k] = t[1 + k - 1]
    BY <1>5, <2>1, SubSeqProperties
  <2> HIDE DEF s
  <2>3. IsSequence(s)  BY <2>2, IsSequenceOf
  <2>4. \A k \in 1 .. L : k \in 1 .. L - 1 + 1 /\ 1 + k - 1 = k  BY <1>5
  <2> QED  BY <1>5, <2>2, <2>3, <2>4
<1>10. IsSequence(d) /\ Len(d) = 5 - L /\ \A k \in 1 .. 5 - L : d[k] = defaults[k + L - 2]
  <2>1. \A k \in L - 1 .. 3 : defaults[k] \in D
    <3>1. \A k \in L - 1 .. 3 : k = 1 \/ k \in 2 .. 3  BY <1>5
    <3> QED  BY <1>8, <3>1
  <2>2. L - 1 \in Int /\ 3 \in Int  BY <1>5
  <2> HIDE DEF D
  <2>3. /\ d \in Seq(D) /\ Len(d) = (IF L - 1 <= 3 THEN 3 - (L - 1) + 1 ELSE 0)
        /\ \A k \in 1 .. 3 - (L - 1) + 1 : d[k] = defaults[L - 1 + k - 1]
    BY <2>1, <2>2, SubSeqProperties
  <2> HIDE DEF d
  <2>4. IsSequence(d)  BY <2>3, IsSequenceOf
  <2>5. \A k \in 1 .. 5 - L : k \in 1 .. 3 - (L - 1) + 1 /\ L - 1 + k - 1 = k + L - 2  BY <1>5
  <2>6. Len(d) = 5 - L  BY <1>5, <2>3
  <2> QED  BY <2>3, <2>4, <2>5, <2>6
<1> HIDE DEF s, d
<1>11. IsSequence(u) /\ Len(u) = 5 /\ \A k \in 1 .. 5 : u[k] = IF k <= L THEN t[k] ELSE defaults[k - 2]
  <2>1. /\ IsSequence(u) /\ Len(u) = Len(s) + Len(d)
        /\ \A k \in 1 .. Len(s) + Len(d) : u[k] = IF k <= Len(s) THEN s[k] ELSE d[k - Len(s)]
    BY <1>9, <1>10, ConcatSequences
  <2> HIDE DEF u
  <2>2. Len(s) + Len(d) = 5  BY <1>5, <1>9, <1>10
  <2>3. ASSUME NEW k \in 1 .. 5, k <= L  PROVE u[k] = t[k]
    <3>1. k \in 1 .. L  BY <1>5, <2>3
    <3> QED  BY <1>9, <2>1, <2>2, <2>3, <3>1
  <2>4. ASSUME NEW k \in 1 .. 5, ~(k <= L)  PROVE u[k] = defaults[k - 2]
    <3>1. k - L \in 1 .. 5 - L /\ k - L + L - 2 = k - 2  BY <1>5, <2>4
    <3>2. u[k] = d[k - L]  BY <1>9, <2>1, <2>2, <2>4
    <3>3. d[k - L] = defaults[k - L + L - 2]  BY <1>10, <3>1
    <3> QED  BY <3>1, <3>2, <3>3
  <2> QED  BY <2>1, <2>2, <2>3, <2>4
<1> HIDE DEF u
<1>12. ASSUME NEW k \in 1 .. 5, ~(k <= L)
       PROVE  Accepts(F[k], u[k]) /\ Value(u[k]) = 0 /\ InKind(F[k], 0)
  <2>1. CASE k = 3
    <3>1. u[k] = [num |-> 0] /\ F[k] = "mode"
      <4>1. k - 2 = 1  BY <2>1
      <4> QED  BY <1>2, <1>8, <1>11, <1>12, <2>1, <4>1
    <3>2. IsId([num |-> 0], "mode")  BY <1>1 DEF IsId
    <3>3. Accepts("mode", [num |-> 0]) /\ Value([num |-> 0]) = 0  BY <1>1, <3>2 DEF Accepts, Value
    <3>4. InKind("mode", 0)  BY <1>1 DEF InKind, Files
    <3> QED  BY <3>1, <3>3, <3>4
  <2>2. CASE k \in 4 .. 5
    <3>1. u[k] = [reg |-> "R", n |-> 0] /\ F[k] = "R"
      <4>1. k - 2 \in 2 .. 3 /\ (k = 4 \/ k = 5)  BY <2>2
      <4> QED  BY <1>2, <1>8, <1>11, <1>12, <4>1
    <3>2. IsReg([reg |-> "R", n |-> 0])  BY DEF IsReg
    <3>3. Accepts("R", [reg |-> "R", n |-> 0]) /\ Value([reg |-> "R", n |-> 0]) = 0
      BY <3>2 DEF Accepts, Value, Files
    <3>4. InKind("R", 0)
      <4>1. "R" \notin DOMAIN Ids  BY DEF Ids
      <4> QED  BY <4>1 DEF InKind, Between, Files
    <3> QED  BY <3>1, <3>3, <3>4
  <2>3. k = 3 \/ k \in 4 .. 5  BY <1>5, <1>12
  <2> QED  BY <2>1, <2>2, <2>3
<1>13. g = [k \in 1 .. 5 |-> g[k]] /\ \A k \in 1 .. 5 : g[k] = IF k <= L THEN f[k] ELSE 0  OBVIOUS
<1> HIDE DEF g
<1>14. \A k \in 1 .. 5 : Accepts(F[k], u[k]) /\ Value(u[k]) = g[k] /\ InKind(F[k], g[k])
  BY <1>3, <1>6, <1>11, <1>12, <1>13
<1>15. j.op = "QOBSERVE" /\ j.f = g /\ j = [op |-> j.op, f |-> j.f]  OBVIOUS
<1> HIDE DEF j
<1>16. Shaped(j)
  <2>1. j.op \in Mnemonics /\ Fields[j.op] = F  BY <1>1, <1>15 DEF F
  <2> QED  BY <1>2, <1>13, <1>14, <1>15, <2>1 DEF Shaped
<1>17. ParsePlain("QOBSERVE", u) = j
  <2>1. Fields[j.op] = F  BY <1>15 DEF F
  <2>2. /\ IsSequence(u) /\ Len(u) = Len(Fields[j.op])
        /\ \A k \in 1 .. Len(Fields[j.op]) : Accepts(Fields[j.op][k], u[k]) /\ Value(u[k]) = j.f[k]
    BY <1>2, <1>11, <1>14, <1>15, <2>1
  <2>3. ParsePlain(j.op, u) = j  BY <1>16, <2>2, PlainReads
  <2> QED  BY <1>15, <2>3
<1>18. ParseObserve(Format(i).toks) = j
  <2>1. ParseObserve(s) = ParsePlain("QOBSERVE", u)
    <3>1. Len(s) \in 2 .. 5  BY <1>5, <1>9
    <3>2. ParseObserve(s) = ParsePlain("QOBSERVE", s \o SubSeq(defaults, Len(s) - 1, 3))
      BY <3>1 DEF ParseObserve, defaults
    <3> QED  BY <1>9, <3>2 DEF u, d
  <2> QED  BY <1>7, <1>17, <2>1
<1>19. Effective(j) = Effective(i)
  <2> DEFINE ef == Operative(f)
             eg == Operative(g)
  <2>1. g[1] = f[1] /\ g[2] = f[2] /\ g[3] = f[3] /\ (f[3] = 1 => g[4] = f[4])
    <3>1. 1 <= L /\ 2 <= L /\ (f[3] = 1 => 4 <= L) /\ (3 <= L \/ L = 2)  BY <1>5
    <3> QED  BY <1>5, <1>13, <3>1
  <2>2. \A k \in 1 .. 5 : k = 1 \/ k = 2 \/ k = 3 \/ k = 4 \/ k = 5  OBVIOUS
  <2>3. /\ ef = [k \in 1 .. 5 |-> ef[k]]
        /\ ef[1] = f[1] /\ ef[2] = f[2] /\ ef[3] = f[3] /\ ef[4] = (IF f[3] = 1 THEN f[4] ELSE 0) /\ ef[5] = 0
    BY <1>3, OperativeFields
  <2>4. /\ eg = [k \in 1 .. 5 |-> eg[k]]
        /\ eg[1] = g[1] /\ eg[2] = g[2] /\ eg[3] = g[3] /\ eg[4] = (IF g[3] = 1 THEN g[4] ELSE 0) /\ eg[5] = 0
    BY <1>13, OperativeFields
  <2>5. Effective(i) = [i EXCEPT !.f = ef]  BY DEF Effective, f
  <2>6. Effective(j) = [j EXCEPT !.f = eg]  BY <1>15 DEF Effective
  <2> HIDE DEF ef, eg
  <2>7. Effective(i) = [op |-> "QOBSERVE", f |-> ef]  BY <1>3, <2>5
  <2>8. Effective(j) = [op |-> "QOBSERVE", f |-> eg]  BY <1>15, <2>6
  <2>9. \A k \in 1 .. 5 : ef[k] = eg[k]  BY <2>1, <2>2, <2>3, <2>4
  <2>10. ef = eg  BY <2>3, <2>4, <2>9
  <2> QED  BY <2>7, <2>8, <2>10
<1> QED  BY <1>15, <1>18, <1>19

\* The quantum mnemonics together.
LEMMA QuantumReparses ==
  ASSUME NEW i, Printable(i), i.op # "HREDUCE"
  PROVE  LET back == ParseQuantum(i.op, Format(i).toks)
         IN  back.op = i.op /\ Effective(back) = Effective(i)
<1> DEFINE op == i.op
           toks == Format(i).toks
           back == ParseQuantum(op, toks)
<1>1. CASE op = "QOBSERVE"
  <2>1. back = ParseObserve(toks)  BY <1>1 DEF ParseQuantum, KernelOps, Gates
  <2> QED  BY <1>1, <2>1, ObserveReparses
<1>2. CASE op # "QOBSERVE"
  <2>1. CASE op \in KernelOps
    <3>1. back = ParseKernel(op, toks)  BY <2>1 DEF ParseQuantum, KernelOps, Gates
    <3>2. back = i  BY <2>1, <3>1, KernelReparses
    <3> QED  BY <3>2
  <2>2. CASE op = "QPREPS"
    <3>1. back = ParsePreps(toks)  BY <2>2 DEF ParseQuantum, KernelOps, Gates
    <3>2. back = i  BY <2>2, <3>1, PrepsReparses
    <3> QED  BY <3>2
  <2>3. CASE op = "QXCH"
    <3>1. back = ParseXch(toks)  BY <2>3 DEF ParseQuantum, KernelOps, Gates
    <3>2. back = i  BY <2>3, <3>1, XchReparses
    <3> QED  BY <3>2
  <2>4. CASE op \notin KernelOps /\ op # "QPREPS" /\ op # "QXCH"
    <3>1. back = ParsePlain(op, toks)  BY <1>2, <2>4 DEF ParseQuantum, ParseGate
    <3>2. toks = PrintedOperands(i)  BY <1>2, <2>4, InOrder
    <3>3. back = i  BY <3>1, <3>2, PlainReparses
    <3> QED  BY <3>3
  <2> QED  BY <2>1, <2>2, <2>3, <2>4
<1> QED  BY <1>1, <1>2

\* The parser reads every line the disassembler prints, and executes it alike.
LEMMA FormatReparses ==
  ASSUME NEW i, Printable(i)
  PROVE  Parse(Format(i)).op = i.op /\ Effective(Parse(Format(i))) = Effective(i)
<1> DEFINE line == Format(i)
           op == i.op
           toks == line.toks
           back == Parse(line)
           Q == DOMAIN QuantumFields \cup DOMAIN RegisterFields
           H == DOMAIN HybridFields
           C == DOMAIN ControlFields
<1>1. /\ op \notin DOMAIN Aliases
      /\ H \cap Q = {} /\ C \cap Q = {} /\ C \cap H = {}
      /\ KernelOps \cup {"QOBSERVE", "QPREPS", "QXCH"} \subseteq Q
      /\ "HREDUCE" \in H
  <2>1. op \in Mnemonics  BY DEF Printable, Proper, Shaped
  <2>2. /\ \A x \in DOMAIN Aliases : x \notin Mnemonics
        /\ H \cap Q = {} /\ C \cap Q = {} /\ C \cap H = {}
        /\ KernelOps \cup {"QOBSERVE", "QPREPS", "QXCH"} \subseteq Q
        /\ "HREDUCE" \in H
    BY TablesAssumption, Zenon
  <2> HIDE DEF op, H, Q, C
  <2> QED  BY <2>1, <2>2
<1>2. line.op = op  BY DEF Format
<1>3. back =
        (CASE op \in DOMAIN Aliases -> ParseAlias(op, toks)
           [] op \in Q -> ParseQuantum(op, toks)
           [] op \in H -> ParseHybrid(op, toks)
           [] op \in C -> ParseControl(op, toks)
           [] OTHER -> ParseInteger(op, toks))
  BY <1>2 DEF Parse
<1> SUFFICES back.op = op /\ Effective(back) = Effective(i)  OBVIOUS
<1> HIDE DEF H, Q, C, back
<1>4. CASE op \in Q
  <2>1. back = ParseQuantum(op, toks)  BY <1>1, <1>3, <1>4
  <2>2. op # "HREDUCE"  BY <1>1, <1>4
  <2> QED  BY <2>1, <2>2, QuantumReparses
<1>5. CASE op \notin Q
  <2>1. op \notin KernelOps /\ op # "QOBSERVE" /\ op # "QPREPS" /\ op # "QXCH"  BY <1>1, <1>5
  <2>2. CASE op = "HREDUCE"
    <3>1. back = ParseHybrid(op, toks)  BY <1>1, <1>3, <2>2
    <3>2. back = ParseReduce(toks)  BY <2>2, <3>1 DEF ParseHybrid
    <3>3. back = i  BY <2>2, <3>2, ReduceReparses
    <3> QED  BY <3>3
  <2>3. CASE op # "HREDUCE"
    <3>1. toks = PrintedOperands(i)  BY <2>1, <2>3, InOrder
    <3>2. ParsePlain(op, toks) = i  BY <3>1, PlainReparses
    <3>3. back = ParseHybrid(op, toks) \/ back = ParseControl(op, toks) \/ back = ParseInteger(op, toks)
      <4>1. CASE op \in H  BY <1>1, <1>3, <1>5, <4>1
      <4>2. CASE op \in C  BY <1>1, <1>3, <1>5, <4>2
      <4>3. CASE op \notin H /\ op \notin C  BY <1>1, <1>3, <1>5, <4>3
      <4> QED  BY <4>1, <4>2, <4>3
    <3>4. ParseHybrid(op, toks) = i  BY <2>3, <3>2 DEF ParseHybrid
    <3>5. ParseControl(op, toks) = i  BY <3>2 DEF ParseControl
    <3>6. ParseInteger(op, toks) = i  BY <2>1, <2>3, IntegerReparses
    <3>7. back = i  BY <3>3, <3>4, <3>5, <3>6
    <3> QED  BY <3>7
  <2> QED  BY <2>2, <2>3
<1> QED  BY <1>4, <1>5

\* The decoder returns a well-formed instruction.
LEMMA DecodedProper ==
  ASSUME NEW code, NEW k, Proper(code[k]), NEW strip, NEW symbols, NEW i, DecodedFrom(code, k, strip, symbols, i)
  PROVE  Proper(i)
<1> DEFINE op == code[k].op
           n == Len(Fields[op])
           f == i.f
           g == code[k].f
<1>1. /\ i.op = op /\ i = [op |-> i.op, f |-> f] /\ f = [j \in 1 .. n |-> f[j]]
      /\ \A j \in 1 .. n : Fields[op][j] # "target" /\ Fields[op][j] # "name" => f[j] = g[j]
  BY DEF DecodedFrom
<1>2. Shaped(code[k]) /\ Checked(code[k])  BY DEF Proper
<1>3. op \in Mnemonics /\ \A j \in 1 .. n : InKind(Fields[op][j], g[j])  BY <1>2 DEF Shaped
<1>4. \A j \in 1 .. n : Fields[op][j] \in Kinds  BY <1>3, FieldKinds
<1>5. \A v : InKind("target", v) /\ InKind("name", v)
  <2>1. "target" \notin DOMAIN Ids /\ "name" \notin DOMAIN Ids  BY DEF Ids
  <2> QED  BY <2>1 DEF InKind, Files
<1>6. /\ op = "QPREPS" => f[2] = g[2] /\ f[3] = g[3]
      /\ op = "QXCH" => f[1] = g[1] /\ f[2] = g[2]
  <2>1. Fields["QPREPS"] = <<"Q", "Z", "u8">> /\ Fields["QXCH"] = <<"Q", "Q">>  BY TablesAssumption, Zenon
  <2>2. op = "QPREPS" => n = 3 /\ Fields[op][2] = "Z" /\ Fields[op][3] = "u8"  BY <2>1
  <2>3. op = "QXCH" => n = 2 /\ Fields[op][1] = "Q" /\ Fields[op][2] = "Q"  BY <2>1
  <2> HIDE DEF f, g, n, op
  <2>4. op = "QPREPS" => f[2] = g[2] /\ f[3] = g[3]
    <3> HAVE op = "QPREPS"
    <3>1. 2 \in 1 .. n /\ 3 \in 1 .. n  BY <2>2
    <3> QED  BY <1>1, <2>2, <3>1
  <2>5. op = "QXCH" => f[1] = g[1] /\ f[2] = g[2]
    <3> HAVE op = "QXCH"
    <3>1. 1 \in 1 .. n /\ 2 \in 1 .. n  BY <2>3
    <3> QED  BY <1>1, <2>3, <3>1
  <2> QED  BY <2>4, <2>5
<1>7. /\ op = "QPREPS" => g[2] + 2 * g[3] <= 8
      /\ op = "QXCH" => g[1] # g[2]
  BY <1>2 DEF Checked
<1> HIDE DEF op, f, g
<1>8. \A j \in 1 .. n : InKind(Fields[op][j], f[j])  BY <1>1, <1>3, <1>4, <1>5
<1>9. Shaped(i)  BY <1>1, <1>3, <1>8 DEF Shaped, f
<1>10. Checked(i)  BY <1>1, <1>6, <1>7 DEF Checked, f
<1> QED  BY <1>9, <1>10 DEF Proper

\* The lines of a listing are those of decoded instructions.
LEMMA WholeListing == Whole => ListingReparses
<1> SUFFICES ASSUME Whole, listing # Missing  PROVE ListingReparses  BY DEF ListingReparses
<1> DEFINE d == Decoded(Image)
           y == Image.symbols
<1>1. torn = FALSE /\ file # <<>> /\ listing = Disassembly  BY DEF Whole, ReadersWhole
<1>2. stage = "written"  BY DEF Whole, ReadersWhole
<1>3. PICK strip \in BOOLEAN : AssemblyOf(parsed, result, strip)  BY <1>2 DEF Whole, AssemblyWhole
<1>4. PICK debug \in BOOLEAN : OnDisk(result, debug)  BY <1>1, <1>2 DEF Whole, DiskWhole
<1>5. Loading(parsed, strip, y, d)  BY <1>1, <1>3, <1>4, ImageRead DEF Kinship
<1>6. LoadedFrom(parsed.code, strip, y, d, Reloaded(d))  BY <1>5, LoadingFacts
<1> DEFINE code == parsed.code
           K == WordPlaces(code, strip)
           M == Cardinality(K)
<1>7. /\ ProperCode(code) /\ DOMAIN d = 1 .. M
      /\ \A n \in 1 .. M : Nth(K, n) \in 1 .. Len(code) /\ DecodedFrom(code, Nth(K, n), strip, y, d[n])
  <2> HIDE DEF code, d, y
  <2> QED  BY <1>6 DEF LoadedFrom, code
<1>8. listing.lines = [k \in DOMAIN d |-> Format(d[k])]  BY <1>1 DEF Disassembly
<1> HIDE DEF d, y, code, K, M
<1>9. DOMAIN listing.lines = 1 .. M /\ \A k \in 1 .. M : listing.lines[k] = Format(d[k])
  BY <1>7, <1>8
<1>10. ASSUME NEW k \in 1 .. M, ~BeyondFile(d[k])
       PROVE  LET back == Parse(listing.lines[k])
              IN  back.op = d[k].op /\ Effective(back) = Effective(d[k])
  <2> DEFINE i == d[k]
             n == Len(Fields[i.op])
  <2>1. Proper(i)
    <3>1. Proper(code[Nth(K, k)])  BY <1>7 DEF ProperCode
    <3> QED  BY <1>7, <3>1, DecodedProper
  <2>2. \A j \in 1 .. n : Fields[i.op][j] \in {"Q", "H"} => i.f[j] < 8
    <3>1. DOMAIN i.f = 1 .. n /\ \A j \in 1 .. n : InKind(Fields[i.op][j], i.f[j])
      <4> DEFINE f == i.f
      <4>1. f = [j \in 1 .. n |-> f[j]] /\ \A j \in 1 .. n : InKind(Fields[i.op][j], f[j])
        BY <2>1 DEF Proper, Shaped
      <4> HIDE DEF f, n
      <4> QED  BY <4>1 DEF f
    <3>2. \A j \in 1 .. n : Fields[i.op][j] \in {"Q", "H"} => ~(i.f[j] >= 8)
      BY <1>10, <3>1 DEF BeyondFile
    <3>3. \A j \in 1 .. n : Fields[i.op][j] \in {"Q", "H"} => i.f[j] \in Int
      BY <3>1 DEF InKind, Between, Files
    <3> QED  BY <3>2, <3>3
  <2>3. Printable(i)  BY <2>1, <2>2 DEF Printable
  <2>4. Parse(Format(i)).op = i.op /\ Effective(Parse(Format(i))) = Effective(i)  BY <2>3, FormatReparses
  <2> QED  BY <1>9, <2>4
<1> QED  BY <1>9, <1>10 DEF ListingReparses, d

\* Every line that disassemble prints is accepted by the parser and read as an
\* instruction that executes alike.
THEOREM ListingsReparse == ToolchainSpec => []ListingReparses
<1> QED  BY WholeAlways, WholeListing, PTL

(***************************************************************************)
(* Data references.                                                        *)
(***************************************************************************)
\* The directives of a section, taken one after the other.
Steppings(ds, j, f) ==
    /\ f = [n \in 0 .. j |-> f[n]]
    /\ f[0] = EmptySection
    /\ \A n \in 1 .. j : f[n] = Directive(f[n - 1], ds[n])

\* They can be taken: by least counterexample.
LEMMA SteppingsExist ==
  ASSUME NEW ds, NEW N \in Nat
  PROVE  \E f : Steppings(ds, N, f)
<1> DEFINE C == {j \in 0 .. N : ~\E f : Steppings(ds, j, f)}
<1> SUFFICES ASSUME N \in C  PROVE FALSE  OBVIOUS
<1>1. PICK j \in C : \A k \in C : j <= k
  <2>1. C \in SUBSET Nat /\ C # {}  OBVIOUS
  <2> HIDE DEF C
  <2> QED  BY <2>1, Least
<1>2. j \in 0 .. N /\ ~\E f : Steppings(ds, j, f)  BY <1>1
<1>3. CASE j = 0
  <2> DEFINE f == [n \in 0 .. 0 |-> EmptySection]
  <2>1. f = [n \in 0 .. 0 |-> f[n]] /\ f[0] = EmptySection  OBVIOUS
  <2> HIDE DEF f
  <2>2. Steppings(ds, 0, f)  BY <2>1 DEF Steppings
  <2> QED  BY <1>2, <1>3, <2>2
<1>4. CASE j # 0
  <2>1. j - 1 \in 0 .. N /\ ~(j <= j - 1)  BY <1>2, <1>4
  <2>2. j - 1 \notin C  BY <1>1, <2>1
  <2>3. PICK g : Steppings(ds, j - 1, g)  BY <2>1, <2>2
  <2> DEFINE h == [n \in 0 .. j |-> IF n = j THEN Directive(g[j - 1], ds[j]) ELSE g[n]]
  <2>4. h = [n \in 0 .. j |-> h[n]] /\ \A n \in 0 .. j : h[n] = IF n = j THEN Directive(g[j - 1], ds[j]) ELSE g[n]
    OBVIOUS
  <2> HIDE DEF h
  <2>5. h[0] = EmptySection
    <3>1. 0 \in 0 .. j /\ 0 # j  BY <1>2, <1>4
    <3> QED  BY <2>3, <2>4, <3>1 DEF Steppings
  <2>6. ASSUME NEW n \in 1 .. j  PROVE h[n] = Directive(h[n - 1], ds[n])
    <3>1. n \in 0 .. j /\ n - 1 \in 0 .. j /\ n - 1 # j  BY <1>2
    <3>2. h[n - 1] = g[n - 1]  BY <2>4, <3>1
    <3>3. CASE n = j  BY <2>4, <3>1, <3>2, <3>3
    <3>4. CASE n # j
      <4>1. n \in 1 .. j - 1  BY <1>2, <3>4
      <4>2. g[n] = Directive(g[n - 1], ds[n])  BY <2>3, <4>1 DEF Steppings
      <4> QED  BY <2>4, <3>1, <3>2, <3>4, <4>2
    <3> QED  BY <3>3, <3>4
  <2>7. Steppings(ds, j, h)  BY <2>4, <2>5, <2>6 DEF Steppings
  <2> QED  BY <1>2, <2>7
<1> QED  BY <1>3, <1>4

\* The result of a section is what they lead to.
LEMMA SectionSteps ==
  ASSUME NEW ds, IsSequence(ds)
  PROVE  \E f : /\ Steppings(ds, Len(ds), f)
                /\ ParseSection(ds) = IF f[Len(ds)].pending = Missing THEN f[Len(ds)]
                                      ELSE [f[Len(ds)] EXCEPT !.ok = FALSE]
<1> DEFINE N == Len(ds)
           R(f) == f = [n \in 0 .. N |-> IF n = 0 THEN EmptySection ELSE Directive(f[n - 1], ds[n])]
           after == CHOOSE f : R(f)
<1>1. N \in Nat  BY SequenceDomain
<1>2. ParseSection(ds) = IF after[N].pending = Missing THEN after[N] ELSE [after[N] EXCEPT !.ok = FALSE]
  BY DEF ParseSection
<1>3. \E f : R(f)
  <2>1. PICK g : Steppings(ds, N, g)  BY <1>1, SteppingsExist
  <2>2. g = [n \in 0 .. N |-> g[n]] /\ g[0] = EmptySection /\ \A n \in 1 .. N : g[n] = Directive(g[n - 1], ds[n])
    BY <2>1 DEF Steppings
  <2>3. \A n \in 0 .. N : g[n] = IF n = 0 THEN EmptySection ELSE Directive(g[n - 1], ds[n])
    <3>1. \A n \in 0 .. N : n = 0 \/ (n # 0 /\ n \in 1 .. N)  BY <1>1
    <3> HIDE DEF N
    <3> QED  BY <2>2, <3>1
  <2> HIDE DEF N
  <2>4. R(g)  BY <2>2, <2>3
  <2> QED  BY <2>4
<1>4. R(after)  BY <1>3
<1> HIDE DEF after
<1>5. Steppings(ds, N, after)
  <2> HIDE DEF N
  <2>1. after = [n \in 0 .. N |-> after[n]]  BY <1>4
  <2>2. after[0] = EmptySection
    <3>1. 0 \in 0 .. N  BY <1>1
    <3> QED  BY <1>4, <3>1
  <2>3. \A n \in 1 .. N : after[n] = Directive(after[n - 1], ds[n])
    <3>1. \A n \in 1 .. N : n # 0 /\ n \in 0 .. N  BY <1>1
    <3> QED  BY <1>4, <3>1
  <2> QED  BY <2>1, <2>2, <2>3 DEF Steppings
<1> QED  BY <1>2, <1>5

\* A section whose labels have names.
Spelled(s) ==
    /\ \A n \in DOMAIN s.labels : IsSequence(n)
    /\ s.pending = Missing \/ IsSequence(s.pending.name)
    /\ s = [cells |-> s.cells, labels |-> s.labels, pending |-> s.pending, ok |-> s.ok]

\* A directive keeps that.
LEMMA DirectiveSpelled ==
  ASSUME NEW s, Spelled(s), NEW d, IsDirective(d)
  PROVE  Spelled(Directive(s, d))
<1> DEFINE e == Directive(s, d)
<1>1. /\ \A n \in DOMAIN s.labels : IsSequence(n)
      /\ s.pending = Missing \/ IsSequence(s.pending.name)
      /\ s = [cells |-> s.cells, labels |-> s.labels, pending |-> s.pending, ok |-> s.ok]
  BY DEF Spelled
<1>2. CASE ~s.ok  BY <1>2 DEF Directive
<1>3. CASE s.ok /\ DOMAIN d = {"label"} /\ IsSequence(d.label)
  <2>1. e = IF d.label \in DOMAIN s.labels THEN [s EXCEPT !.ok = FALSE]
            ELSE [s EXCEPT !.pending = [name |-> d.label]]
    BY <1>3 DEF Directive
  <2> HIDE DEF e
  <2>2. e.labels = s.labels /\ (e.pending = s.pending \/ e.pending = [name |-> d.label])
        /\ e = [cells |-> e.cells, labels |-> e.labels, pending |-> e.pending, ok |-> e.ok]
    BY <1>1, <2>1
  <2>3. [name |-> d.label].name = d.label  OBVIOUS
  <2>4. Spelled(e)  BY <1>1, <1>3, <2>2, <2>3 DEF Spelled
  <2> QED  BY <2>4 DEF e
<1>4. CASE s.ok /\ d \in [org : Nat]
  <2>1. "label" \notin DOMAIN d /\ "org" \in DOMAIN d  BY <1>4
  <2>2. e = IF d.org < s.cells THEN [s EXCEPT !.ok = FALSE] ELSE [s EXCEPT !.cells = d.org]
    BY <1>4, <2>1 DEF Directive
  <2> HIDE DEF e
  <2>3. e.labels = s.labels /\ e.pending = s.pending
        /\ e = [cells |-> e.cells, labels |-> e.labels, pending |-> e.pending, ok |-> e.ok]
    BY <1>1, <2>2
  <2>4. Spelled(e)  BY <1>1, <2>3 DEF Spelled
  <2> QED  BY <2>4 DEF e
<1>5. CASE s.ok /\ d \in [cells : Nat, count : Nat]
  <2> DEFINE place == [base |-> s.cells % 65536, count |-> d.count % 65536]
             placed == Placed(s.labels, s.pending.name, place)
  <2>1. "label" \notin DOMAIN d /\ "org" \notin DOMAIN d  BY <1>5
  <2>2. e = [s EXCEPT !.cells = s.cells + d.cells, !.pending = Missing,
                      !.labels = IF s.pending = Missing THEN s.labels ELSE placed]
    BY <1>5, <2>1 DEF Directive
  <2>3. DOMAIN placed = DOMAIN s.labels \cup {s.pending.name}  BY DEF Placed
  <2> HIDE DEF e, placed
  <2>4. /\ e.labels = (IF s.pending = Missing THEN s.labels ELSE placed) /\ e.pending = Missing
        /\ e = [cells |-> e.cells, labels |-> e.labels, pending |-> e.pending, ok |-> e.ok]
    BY <1>1, <2>2
  <2>5. \A n \in DOMAIN e.labels : IsSequence(n)
    <3>1. CASE s.pending = Missing  BY <1>1, <2>4, <3>1
    <3>2. CASE s.pending # Missing  BY <1>1, <2>3, <2>4, <3>2
    <3> QED  BY <3>1, <3>2
  <2>6. Spelled(e)  BY <2>4, <2>5 DEF Spelled
  <2> QED  BY <2>6 DEF e
<1> QED  BY <1>2, <1>3, <1>4, <1>5 DEF IsDirective

\* So the labels of a section are names.
LEMMA SectionSpelled ==
  ASSUME NEW ds, IsSection(ds)
  PROVE  \A n \in DOMAIN ParseSection(ds).labels : IsSequence(n)
<1> DEFINE N == Len(ds)
<1>1. IsSequence(ds) /\ N \in Nat /\ DOMAIN ds = 1 .. N /\ \A k \in 1 .. N : IsDirective(ds[k])
  BY SequenceDomain DEF IsSection
<1>2. PICK f : /\ Steppings(ds, N, f)
               /\ ParseSection(ds) = IF f[N].pending = Missing THEN f[N] ELSE [f[N] EXCEPT !.ok = FALSE]
  BY <1>1, SectionSteps
<1>3. f[0] = EmptySection /\ \A n \in 1 .. N : f[n] = Directive(f[n - 1], ds[n])  BY <1>2 DEF Steppings
<1> DEFINE C == {j \in 0 .. N : ~Spelled(f[j])}
<1> HIDE DEF N
<1>4. C = {}
  <2> SUFFICES ASSUME C # {}  PROVE FALSE  OBVIOUS
  <2>1. PICK j \in C : \A k \in C : j <= k
    <3>1. C \in SUBSET Nat  BY <1>1
    <3> HIDE DEF C
    <3> QED  BY <3>1, Least
  <2>2. j \in 0 .. N /\ ~Spelled(f[j])  BY <2>1
  <2>3. CASE j = 0
    <3> DEFINE s == EmptySection
    <3>1. /\ s.labels = <<>> /\ s.pending = Missing
          /\ s = [cells |-> s.cells, labels |-> s.labels, pending |-> s.pending, ok |-> s.ok]
      BY DEF EmptySection
    <3> HIDE DEF s
    <3>2. Spelled(s)  BY <3>1 DEF Spelled
    <3> QED  BY <1>3, <2>2, <2>3, <3>2 DEF s
  <2>4. CASE j # 0
    <3>1. j - 1 \in 0 .. N /\ j \in 1 .. N /\ ~(j <= j - 1)  BY <1>1, <2>2, <2>4
    <3>2. Spelled(f[j - 1])  BY <2>1, <3>1
    <3>3. Spelled(Directive(f[j - 1], ds[j]))  BY <1>1, <3>1, <3>2, DirectiveSpelled
    <3> QED  BY <1>3, <2>2, <3>1, <3>3
  <2> QED  BY <2>3, <2>4
<1>5. Spelled(f[N])
  <2>1. N \in 0 .. N  BY <1>1
  <2> QED  BY <1>4, <2>1
<1>6. ParseSection(ds).labels = f[N].labels
  <2> DEFINE s == f[N]
  <2>1. s = [cells |-> s.cells, labels |-> s.labels, pending |-> s.pending, ok |-> s.ok]  BY <1>5 DEF Spelled
  <2> HIDE DEF s
  <2>2. [s EXCEPT !.ok = FALSE].labels = s.labels  BY <2>1
  <2>3. ParseSection(ds) = s \/ ParseSection(ds) = [s EXCEPT !.ok = FALSE]  BY <1>2 DEF s
  <2>4. ParseSection(ds).labels = s.labels  BY <2>2, <2>3
  <2> QED  BY <2>4 DEF s
<1> QED  BY <1>5, <1>6 DEF Spelled

\* A name that begins another one and is not shorter is the same.
LEMMA PrefixOfSame ==
  ASSUME NEW s, NEW t, IsSequence(s), IsSequence(t), IsPrefix(s, t), Len(t) <= Len(s)
  PROVE  s = t
<1> DEFINE S == {s[k] : k \in 1 .. Len(s)} \cup {t[k] : k \in 1 .. Len(t)}
           n == Len(s)
<1>1. s \in Seq(S) /\ Len(s) \in Nat
  <2>1. \A k \in 1 .. Len(s) : s[k] \in S  OBVIOUS
  <2> QED  BY <2>1, SequenceType
<1>2. t \in Seq(S) /\ Len(t) \in Nat
  <2>1. \A k \in 1 .. Len(t) : t[k] \in S  OBVIOUS
  <2> QED  BY <2>1, SequenceType
<1> HIDE DEF S
<1>3. Len(s) <= Len(t) /\ SubSeq(s, 1, n) = SubSeq(t, 1, n)  BY DEF IsPrefix
<1>4. Len(t) = n  BY <1>1, <1>2, <1>3
<1>5. \A u \in Seq(S) : Len(u) = n => \A k \in 1 .. n : SubSeq(u, 1, n)[k] = u[k]
  <2>1. SUFFICES ASSUME NEW u \in Seq(S), Len(u) = n, NEW k \in 1 .. n  PROVE SubSeq(u, 1, n)[k] = u[k]  OBVIOUS
  <2>2. n \in Int /\ 1 \in Int /\ \A i \in 1 .. n : u[i] \in S  BY <1>1, <2>1
  <2>3. \A i \in 1 .. n - 1 + 1 : SubSeq(u, 1, n)[i] = u[1 + i - 1]
    <3> HIDE DEF n
    <3> QED  BY <2>2, SubSeqProperties
  <2>4. k \in 1 .. n - 1 + 1 /\ 1 + k - 1 = k  BY <1>1
  <2> HIDE DEF n
  <2> QED  BY <2>3, <2>4
<1>6. \A k \in 1 .. n : s[k] = t[k]
  <2> HIDE DEF n
  <2>1. Len(s) = n  BY DEF n
  <2> QED  BY <1>1, <1>2, <1>3, <1>4, <1>5, <2>1
<1> QED  BY <1>1, <1>2, <1>4, <1>6, SeqEqual

\* A name begins itself.
LEMMA OwnPrefix ==
  ASSUME NEW s, IsSequence(s)
  PROVE  IsPrefix(s, s)
<1>1. Len(s) \in Nat  BY SequenceDomain
<1> QED  BY <1>1 DEF IsPrefix

\* A reference to a label that is defined becomes its address or its length.
LEMMA OwnLabelTaken ==
  ASSUME NEW labels, \A n \in DOMAIN labels : IsSequence(n),
         NEW t, IsSequence(t.ref), t.ref \in DOMAIN labels
  PROVE  Substitute(labels, t) = [num |-> IF t.len THEN labels[t.ref].count ELSE labels[t.ref].base]
<1> DEFINE begins == {n \in DOMAIN labels : IsPrefix(n, t.ref)}
           label == CHOOSE n \in begins : \A j \in begins : Len(j) <= Len(n)
           rest == SubSeq(t.ref, Len(label) + 1, Len(t.ref))
<1>1. t.ref \in begins  BY OwnPrefix
<1>2. \A j \in begins : Len(j) <= Len(t.ref)  BY DEF IsPrefix
<1>3. label \in begins /\ Len(t.ref) <= Len(label)
  <2>1. \E n \in begins : \A j \in begins : Len(j) <= Len(n)  BY <1>1, <1>2
  <2>2. label \in begins /\ \A j \in begins : Len(j) <= Len(label)  BY <2>1
  <2> HIDE DEF begins, label
  <2> QED  BY <1>1, <2>2
<1>4. label = t.ref  BY <1>3, PrefixOfSame
<1>5. rest = <<>>
  <2> DEFINE r == t.ref
             S == {r[k] : k \in 1 .. Len(r)}
  <2>1. Len(r) \in Nat  BY SequenceDomain
  <2> HIDE DEF label, r
  <2>2. rest = SubSeq(r, Len(r) + 1, Len(r))  BY <1>4 DEF r
  <2>3. SubSeq(r, Len(r) + 1, Len(r)) = <<>>
    <3> DEFINE L == Len(r)
               q == SubSeq(r, L + 1, L)
    <3>1. L + 1 \in Int /\ L \in Int /\ ~(L + 1 <= L)  BY <2>1
    <3>2. \A i \in L + 1 .. L : r[i] \in S  BY <2>1
    <3> HIDE DEF S, L, q
    <3>3. q \in Seq(S) /\ Len(q) = 0
      <4>1. SubSeq(r, L + 1, L) \in Seq(S) /\ Len(SubSeq(r, L + 1, L)) = IF L + 1 <= L THEN L - (L + 1) + 1 ELSE 0
        BY <3>1, <3>2, SubSeqProperties
      <4> QED  BY <3>1, <4>1 DEF q
    <3>4. q = <<>>  BY <3>3, EmptySeq
    <3> QED  BY <3>4 DEF q, L
  <2> QED  BY <2>2, <2>3
<1>6. begins # {}  BY <1>1
<1>7. Substitute(labels, t) =
        (CASE begins = {} -> t
           [] begins # {} /\ rest = <<>> ->
                 [num |-> IF t.len THEN labels[label].count ELSE labels[label].base]
           [] begins # {} /\ rest # <<>> /\ (t.len \/ -1 \in Range(rest)) -> [bad |-> TRUE]
           [] OTHER -> [num |-> FoldLeft(LAMBDA v, c : 10 * v + c, labels[label].base, rest)])
  BY Zenon DEF Substitute
<1> DEFINE other == [num |-> FoldLeft(LAMBDA v, c : 10 * v + c, labels[label].base, rest)]
           bad == -1 \in Range(rest)
<1> HIDE DEF begins, label, rest, other, bad
<1>8. Substitute(labels, t) = [num |-> IF t.len THEN labels[label].count ELSE labels[label].base]
  BY <1>5, <1>6, <1>7
<1> QED  BY <1>4, <1>8

\* The labels of the source file.
LEMMA LabelsAreNames ==
  ASSUME source \in Sources
  PROVE  /\ \A n \in DOMAIN Labels(source.data) : IsSequence(n)
         /\ \A n \in DOMAIN Labels(source.shared) : IsSequence(n)
<1>1. IsSection(source.data) /\ IsSection(source.shared)  BY SourcesAssumption
<1> QED  BY <1>1, SectionSpelled DEF Labels

\* The references of the source file.
LEMMA ReferenceShape ==
  ASSUME source \in Sources, NEW t \in References
  PROVE  IsSequence(t.ref) /\ DOMAIN t = {"ref", "len"}
<1>1. IsSequence(source.code) /\ \A k \in DOMAIN source.code : IsLine(source.code[k])  BY SourcesAssumption
<1>2. PICK k \in DOMAIN source.code : t \in Range(source.code[k].toks) /\ "ref" \in DOMAIN t
  BY DEF References
<1>3. PICK j \in DOMAIN source.code[k].toks : t = source.code[k].toks[j]  BY <1>2 DEF Range
<1>4. IsToken(t)  BY <1>1, <1>3 DEF IsLine
<1>5. "ref" \in DOMAIN t  BY <1>2
<1>6. /\ t \notin [reg : Files, n : Nat] /\ t \notin [num : Int]
      /\ DOMAIN t # {"id"} /\ DOMAIN t # {"label"}
  BY <1>5
<1> QED  BY <1>4, <1>6 DEF IsToken

\* Data labels first, then shared labels.
LEMMA WholeReferences == Whole => DefinedReferencesResolve
<1> SUFFICES ASSUME Whole, NEW t \in References, Defines(t.ref), ~Shadowed(t.ref)
             PROVE  Replaced(t) = Meant(t)
  BY DEF DefinedReferencesResolve
<1> DEFINE D == Labels(source.data)
           H == Labels(source.shared)
           own(labels) == [num |-> IF t.len THEN labels[t.ref].count ELSE labels[t.ref].base]
<1>1. source \in Sources  BY DEF Whole
<1>2. IsSequence(t.ref) /\ "ref" \in DOMAIN t  BY <1>1, ReferenceShape
<1>3. (\A n \in DOMAIN D : IsSequence(n)) /\ (\A n \in DOMAIN H : IsSequence(n))  BY <1>1, LabelsAreNames
<1>4. Replaced(t) = SubstituteIn(H, SubstituteIn(D, t))  BY DEF Replaced
<1>5. \A labels : "ref" \notin DOMAIN own(labels)  OBVIOUS
<1>6. t.ref \in DOMAIN D \/ t.ref \in DOMAIN H  BY DEF Defines
<1>7. t.ref \notin DOMAIN D => \A n \in DOMAIN D : ~IsPrefix(n, t.ref)  BY DEF Shadowed
<1>8. Meant(t) = IF t.ref \in DOMAIN D THEN own(D) ELSE own(H)  BY DEF Meant, OwnLabel
<1> HIDE DEF D, H
<1>9. CASE t.ref \in DOMAIN D
  <2>1. SubstituteIn(D, t) = own(D)  BY <1>2, <1>3, <1>9, OwnLabelTaken DEF SubstituteIn
  <2>2. SubstituteIn(H, own(D)) = own(D)  BY <1>5 DEF SubstituteIn
  <2> QED  BY <1>4, <1>8, <1>9, <2>1, <2>2
<1>10. CASE t.ref \notin DOMAIN D
  <2>1. {n \in DOMAIN D : IsPrefix(n, t.ref)} = {}  BY <1>7, <1>10
  <2>2. Substitute(D, t) = t  BY <2>1 DEF Substitute
  <2>3. SubstituteIn(D, t) = t  BY <2>2 DEF SubstituteIn
  <2>4. SubstituteIn(H, t) = own(H)  BY <1>2, <1>3, <1>6, <1>10, OwnLabelTaken DEF SubstituteIn
  <2> QED  BY <1>4, <1>8, <1>10, <2>3, <2>4
<1> QED  BY <1>9, <1>10

\* In a program that parse_program accepts, a reference to a label has become
\* that label's address or length, also when another label begins its name.
THEOREM ReferencesResolve == ToolchainSpec => []DefinedReferencesResolve
<1> QED  BY WholeAlways, WholeReferences, PTL
=============================================================================
