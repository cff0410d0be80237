----------------------------- MODULE SpmdProofs -----------------------------
(***************************************************************************)
(* Proofs about Spmd for every program, number of threads and memory.      *)
(***************************************************************************)
EXTENDS Spmd, ThreadBarrier, SequenceTheorems, FiniteSetTheorems, TLAPS

-----------------------------------------------------------------------------
(***************************************************************************)
(* Operators of SharedMemory.                                              *)
(***************************************************************************)

\* A u16 sum is an address, and never more than the sum.
LEMMA SumIsAddr ==
    ASSUME NEW a \in Nat, NEW b \in Nat
    PROVE  M!Sum16(a, b) \in M!Addr /\ M!Sum16(a, b) <= a + b
BY SizesAssumption DEF M!Sum16, M!Addr

\* The region is a pair of addresses.
LEMMA RegionType ==
    /\ Region.base \in M!Addr /\ Region.base \in Nat
    /\ Region.size \in M!Addr /\ Region.size \in Nat
<1>1. Len(SharedCells) \in Nat /\ SharedBase \in Nat
  BY SharedAssumption DEF M!Addr
<1>2. M!Sum16(SharedBase, Len(SharedCells)) \in M!Addr
  BY <1>1, SumIsAddr
<1>3. 0 \in M!Addr /\ SharedBase \in M!Addr
  BY SharedAssumption, SizesAssumption DEF M!Addr
<1>4. Region.base \in M!Addr /\ Region.size \in M!Addr
  BY <1>2, <1>3 DEF Region, M!RunnerRegion, M!NoRegion
<1> QED BY <1>4 DEF M!Addr

\* A thread that starts has a well-formed context.
LEMMA NewContextType == NewContext \in Context
<1>1. \A a \in M!Addr :
        a \in SharedBase .. SharedBase + Len(SharedCells) - 1
          => SharedCells[a - SharedBase + 1] \in Val
  BY SharedAssumption DEF M!Addr
<1>2. 0 \in Val
  BY SizesAssumption DEF Val
<1> QED BY <1>1, <1>2 DEF NewContext, Context

Memory == [0 .. Region.size - 1 -> Val]

\* HFORK copies the shared cells of a CMEM image.
LEMMA InitialDataType ==
    ASSUME NEW cmem \in [M!Addr -> Val]
    PROVE  M!InitialData(Region, cmem) \in Memory
<1>1. ASSUME NEW i \in 0 .. Region.size - 1
      PROVE  M!Sum16(Region.base, i) \in M!Addr
  <2>1. i \in Nat
    BY RegionType
  <2> QED BY <2>1, RegionType, SumIsAddr
<1> QED BY <1>1 DEF M!InitialData, Memory

\* An address in the region has an offset inside it: no index out of bounds.
LEMMA OffsetType ==
    ASSUME NEW a \in M!Addr, M!Contains(Region, a)
    PROVE  M!Offset(Region, a) \in 0 .. Region.size - 1
<1>1. /\ M!Sum16(Region.base, Region.size) <= Region.base + Region.size
      /\ M!Sum16(Region.base, Region.size) \in M!Addr
  BY RegionType, SumIsAddr
<1>2. M!Sum16(Region.base, Region.size) \in Nat
  BY <1>1 DEF M!Addr
<1> QED BY <1>1, <1>2, RegionType DEF M!Contains, M!Offset, M!Addr

\* What a thread loads is a value.
LEMMA SharedLoadType ==
    ASSUME NEW d \in Memory, NEW s \in Memory, NEW cmem \in [M!Addr -> Val],
           NEW a \in M!Addr, NEW b \in BOOLEAN
    PROVE  M!SharedLoad(Region, d, s, cmem, a, b) \in Val
BY OffsetType DEF M!SharedLoad, Memory

\* Writing the region back leaves a CMEM image.
LEMMA WriteBackType ==
    ASSUME NEW d \in Memory, NEW cmem \in [M!Addr -> Val]
    PROVE  M!WriteBack(Region, d, cmem) \in [M!Addr -> Val]
<1>1. ASSUME NEW a \in M!Addr, \E i \in DOMAIN d : a = M!Sum16(Region.base, i)
      PROVE  d[CHOOSE i \in DOMAIN d : a = M!Sum16(Region.base, i)] \in Val
  BY <1>1 DEF Memory
<1> QED BY <1>1 DEF M!WriteBack

-----------------------------------------------------------------------------
(***************************************************************************)
(* Types.  TypeOK falls into what Retire, Fault and Goto assign, the       *)
(* memory, HFORK's state and the barrier; an action disturbs few of them.  *)
(***************************************************************************)
ControlOK ==
    /\ prog \in Programs
    /\ ctx \in [Tids -> Context]
    /\ run \in [Tids -> RunState]
    /\ cycles \in Nat
SharedOK == data \in Memory /\ snapshot \in Memory
ForkOK == qfile \in SUBSET QIdx /\ nextTid \in 1 .. N /\ hasBarrier \in BOOLEAN
BarrierOK ==
    /\ round \in [Tids -> Nat]
    /\ inside \in SUBSET Tids
    /\ first \in SUBSET inside
    /\ verdict \in [Tids -> BOOLEAN]

LEMMA TypeParts == TypeOK <=> ControlOK /\ SharedOK /\ ForkOK /\ BarrierOK
BY DEF TypeOK, ControlOK, SharedOK, ForkOK, BarrierOK, Memory

LEMMA Unchanged ==
    /\ SharedOK /\ UNCHANGED shared => SharedOK'
    /\ ForkOK /\ UNCHANGED fork => ForkOK'
    /\ BarrierOK /\ UNCHANGED barrier => BarrierOK'
BY DEF SharedOK, ForkOK, BarrierOK, shared, fork, barrier

LEMMA OnlyControl ==
    ASSUME TypeOK, ControlOK', UNCHANGED <<shared, fork, barrier>> PROVE TypeOK'
<1>1. UNCHANGED shared /\ UNCHANGED fork /\ UNCHANGED barrier
  BY DEF shared, fork, barrier
<1>2. SharedOK' /\ ForkOK' /\ BarrierOK'
  BY <1>1, TypeParts, Unchanged
<1>3. ControlOK' /\ SharedOK' /\ ForkOK' /\ BarrierOK' => TypeOK'
  BY TypeParts, PTL
<1> QED BY <1>2, <1>3

\* The operands of the instruction that t executes are in range.
LEMMA OperandType ==
    ASSUME ControlOK, NEW t \in Tids, NEW op, At(t, op)
    PROVE  /\ Arg(t) \in Nat
           /\ op \in {"LOAD", "STORE"} => Arg(t) \in M!Addr
           /\ op \in {"QPREP", "QOBSERVE"} => Arg(t) \in QIdx
<1>1. prog \in Seq([op : STRING, arg : Nat])
  BY ProgramsAssumption DEF ControlOK
<1>2. ctx[t].pc + 1 \in 1 .. Len(prog)
  BY <1>1 DEF ControlOK, Context, At
<1>3. Arg(t) = prog[ctx[t].pc + 1].arg /\ op = prog[ctx[t].pc + 1].op
  BY DEF At, Arg
<1>4. prog[ctx[t].pc + 1] \in [op : STRING, arg : Nat]
  BY <1>1, <1>2, ElementOfSeq
<1>5. /\ op \in {"LOAD", "STORE"} => prog[ctx[t].pc + 1].arg \in M!Addr
      /\ op \in {"QPREP", "QOBSERVE"} => prog[ctx[t].pc + 1].arg \in QIdx
  BY <1>2, <1>3, ProgramsAssumption DEF ControlOK
<1> QED BY <1>3, <1>4, <1>5

\* An instruction that returns Ok, one that fails and one that blocks keep the
\* types as long as the context they leave is well formed.
LEMMA RetireType ==
    ASSUME ControlOK, NEW t \in Tids, NEW c \in Context, Retire(t, c)
    PROVE  ControlOK'
<1>1. Dispatched(t, c) \in Context
  <2> DEFINE h == c.halt \/ EnableInterrupts
             d == [c EXCEPT !.arith = FALSE]
             e == [d EXCEPT !.halt = h]
  <2>1. h \in BOOLEAN
    BY SizesAssumption DEF Context
  <2>2. d \in Context /\ d.halt = c.halt
    BY DEF Context
  <2>3. Dispatched(t, c) = IF t = 0 /\ c.arith THEN e ELSE c
    BY <2>2 DEF Dispatched
  <2> HIDE DEF h, d
  <2>4. e \in Context
    BY <2>1, <2>2 DEF Context
  <2> HIDE DEF e
  <2> QED BY <2>3, <2>4
<1>2. Limited(t, Dispatched(t, c)) \in Context
  BY <1>1 DEF Limited, Context
<1>3. run' \in [Tids -> RunState] /\ cycles' \in Nat
  BY DEF Retire, ControlOK, RunState
<1> QED BY <1>2, <1>3 DEF Retire, ControlOK

LEMMA FaultType ==
    ASSUME ControlOK, NEW t \in Tids, NEW c \in Context, Fault(t, c)
    PROVE  ControlOK'
BY DEF Fault, ControlOK, RunState

LEMMA GotoType ==
    ASSUME ControlOK, NEW t \in Tids, NEW c \in Context, NEW place \in RunState,
           Goto(t, place, c)
    PROVE  ControlOK'
BY DEF Goto, ControlOK

\* A new barrier is well formed.
LEMMA FreshBarrierType ==
    /\ R!Init => BarrierOK
    /\ (/\ round' = [u \in Tids |-> 0] /\ verdict' = [u \in Tids |-> FALSE]
        /\ inside' = {} /\ first' = {})
         => BarrierOK'
<1>1. R!Init => BarrierOK
  <2> SUFFICES ASSUME R!Init PROVE BarrierOK
    OBVIOUS
  <2>1. round \in [Tids -> Nat] /\ verdict \in [Tids -> BOOLEAN]
    BY DEF R!Init
  <2> QED BY <2>1 DEF R!Init, BarrierOK
<1>2. ASSUME round' = [u \in Tids |-> 0], verdict' = [u \in Tids |-> FALSE],
             inside' = {}, first' = {}
      PROVE  BarrierOK'
  <2>1. round' \in [Tids -> Nat] /\ verdict' \in [Tids -> BOOLEAN]
    BY <1>2
  <2> QED BY <1>2, <2>1 DEF BarrierOK
<1> QED BY <1>1, <1>2

\* The barrier's steps keep its types.
LEMMA BarrierStepType ==
    ASSUME BarrierOK, NEW t \in Tids, R!Enter(t) \/ R!Pass(t) \/ R!Leave(t)
    PROVE  BarrierOK'
<1>1. CASE R!Enter(t)
  BY <1>1 DEF BarrierOK, R!Enter
<1>2. ASSUME R!Pass(t) PROVE BarrierOK'
  <2>1. round' \in [Tids -> Nat]
    BY <1>2 DEF BarrierOK, R!Pass
  <2>2. verdict' \in [Tids -> BOOLEAN]
    BY <1>2 DEF BarrierOK, R!Pass
  <2> QED BY <1>2, <2>1, <2>2 DEF BarrierOK, R!Pass
<1>3. ASSUME R!Leave(t) PROVE BarrierOK'
  <2>1. round' \in [Tids -> Nat]
    BY <1>3 DEF BarrierOK, R!Leave
  <2>2. verdict' \in [Tids -> BOOLEAN]
    BY <1>3 DEF BarrierOK, R!Leave
  <2>3. inside' \in SUBSET Tids /\ first' \in SUBSET inside'
    BY <1>3 DEF BarrierOK, R!Leave
  <2> QED BY <2>1, <2>2, <2>3 DEF BarrierOK
<1> QED BY <1>1, <1>2, <1>3

\* A context stays one when its pc advances, and keeps its flags.
LEMMA AdvanceType ==
    ASSUME NEW c \in Context
    PROVE  /\ Advance(c) \in Context
           /\ Advance(c).inAtomic = c.inAtomic /\ Advance(c).forked = c.forked
           /\ Advance(c).merged = c.merged /\ Advance(c).sharing = c.sharing
           /\ Advance(c).skip = c.skip /\ Advance(c).pc = c.pc + 1
BY DEF Advance, Context

\* t's instruction is followed by the next one, and by none that opens or closes
\* a section; the pc of c is one such an instruction leads to, or a jump's target,
\* unless the thread halts.
Passing(t) == ~At(t, "HATME") /\ (At(t, "HATMS") => ctx[t].skip)
Reached(t, c) ==
    \/ c.pc = ctx[t].pc + 1 /\ Passing(t)
    \/ c.pc = Arg(t) /\ \E op \in {"JMP", "JMPAF", "JTID"} : At(t, op)
    \/ c.halt

\* t ends an instruction, Ok or not, with context c and the flags it had.
Ends(t, c) ==
    /\ (Retire(t, c) /\ Reached(t, c)) \/ Fault(t, c)
    /\ run[t] = "exec"
    /\ c.inAtomic = ctx[t].inAtomic /\ c.forked = ctx[t].forked
    /\ c.merged = ctx[t].merged /\ c.skip = ctx[t].skip /\ c.sharing = ctx[t].sharing

\* Instructions that touch only the thread's own context.
LEMMA LocalContext ==
    ASSUME ControlOK, SharedOK, NEW t \in Tids, Local(t)
    PROVE  \E c \in Context : Ends(t, c)
<1>0. ASSUME NEW op, op \notin {"HATMS", "HATME"}, Executes(t, op)
      PROVE  run[t] = "exec" /\ Passing(t)
  BY <1>0 DEF Executes, At, Passing
<1>1. ctx[t] \in Context
  BY DEF ControlOK
<1> DEFINE SameFlags(c) ==
             /\ c \in Context
             /\ c.inAtomic = ctx[t].inAtomic /\ c.forked = ctx[t].forked
             /\ c.merged = ctx[t].merged /\ c.skip = ctx[t].skip
             /\ c.sharing = ctx[t].sharing
<1>2. ASSUME NEW c, SameFlags(c), run[t] = "exec",
             \/ Retire(t, Advance(c)) /\ c.pc = ctx[t].pc /\ Passing(t)
             \/ Retire(t, c) /\ Reached(t, c)
             \/ Fault(t, c)
      PROVE  \E d \in Context : Ends(t, d)
  <2>1. Advance(c) \in Context /\ SameFlags(Advance(c)) /\ Advance(c).pc = c.pc + 1
    BY <1>2, AdvanceType
  <2> QED BY <1>2, <2>1 DEF Ends, Reached
<1>3. CASE Skip(t) \/ FDivZero(t)
  BY <1>1, <1>2, <1>3 DEF Skip, Skips, FDivZero, Executes, At, Passing
<1>4. CASE Load(t)
  <2>1. Arg(t) \in M!Addr /\ ctx[t].cmem[Arg(t)] \in Val /\ ctx[t].inAtomic \in BOOLEAN
    BY <1>1, <1>4, OperandType DEF Load, Executes, Context
  <2> DEFINE v == IF ctx[t].sharing
                  THEN M!SharedLoad(Region, data, snapshot, ctx[t].cmem, Arg(t), ctx[t].inAtomic)
                  ELSE ctx[t].cmem[Arg(t)]
             c == [ctx[t] EXCEPT !.acc = v]
  <2>2. v \in Val
    BY <1>1, <2>1, SharedLoadType DEF SharedOK, Context
  <2>3. SameFlags(c) /\ c.pc = ctx[t].pc
    BY <1>1, <2>2 DEF Context
  <2>4. Fault(t, ctx[t]) \/ Retire(t, Advance(c))
    BY <1>4 DEF Load
  <2>5. run[t] = "exec" /\ Passing(t)
    BY <1>0, <1>4 DEF Load
  <2> QED BY <1>1, <1>2, <2>3, <2>4, <2>5
<1>5. CASE Store(t)
  <2>1. Arg(t) \in M!Addr
    BY <1>5, OperandType DEF Store, Executes
  <2> DEFINE c == [ctx[t] EXCEPT !.cmem[Arg(t)] = ctx[t].acc]
  <2>2. SameFlags(c) /\ c.pc = ctx[t].pc
    BY <1>1, <2>1 DEF Context
  <2>3. run[t] = "exec" /\ Passing(t)
    BY <1>0, <1>5 DEF Store
  <2> QED BY <1>1, <1>2, <1>5, <2>2, <2>3 DEF Store
<1>6. CASE Inc(t)
  <2>1. Incremented(ctx[t].acc) \in Val
    BY <1>1, SizesAssumption DEF Incremented, Context, Val
  <2> DEFINE c == [ctx[t] EXCEPT !.acc = Incremented(@)]
  <2>2. SameFlags(c) /\ c.pc = ctx[t].pc
    BY <1>1, <2>1 DEF Context
  <2>3. run[t] = "exec" /\ Passing(t)
    BY <1>0, <1>6 DEF Inc
  <2> QED BY <1>2, <1>6, <2>2, <2>3 DEF Inc
<1>7. CASE Jump(t)
  <2>1. CASE JumpTaken(t) /\ Retire(t, [ctx[t] EXCEPT !.pc = Arg(t)])
    <3>1. Arg(t) \in Nat
      BY <2>1, OperandType DEF JumpTaken, Executes
    <3> DEFINE c == [ctx[t] EXCEPT !.pc = Arg(t)]
    <3>2. SameFlags(c) /\ c.pc = Arg(t)
      BY <1>1, <3>1 DEF Context
    <3>3. run[t] = "exec" /\ \E op \in {"JMP", "JMPAF", "JTID"} : At(t, op)
      BY <2>1 DEF JumpTaken, Executes, At
    <3> QED BY <1>2, <2>1, <3>2, <3>3 DEF Reached
  <2>2. CASE JumpNotTaken(t) /\ Retire(t, Advance(ctx[t]))
    BY <1>1, <1>2, <2>2 DEF JumpNotTaken, Executes, At, Passing
  <2> QED BY <1>7, <2>1, <2>2 DEF Jump
<1>8. CASE Halt(t)
  <2> DEFINE c == [ctx[t] EXCEPT !.halt = TRUE]
  <2>1. SameFlags(c) /\ c.halt
    BY <1>1 DEF Context
  <2>2. run[t] = "exec" /\ Retire(t, c)
    BY <1>0, <1>8 DEF Halt
  <2> QED BY <1>2, <2>1, <2>2 DEF Reached
<1>9. CASE IDivZero(t)
  <2> DEFINE c == [ctx[t] EXCEPT !.acc = 0, !.arith = TRUE]
  <2>1. 0 \in Val
    BY SizesAssumption DEF Val
  <2>2. SameFlags(c) /\ c.pc = ctx[t].pc
    BY <1>1, <2>1 DEF Context
  <2>3. run[t] = "exec" /\ Passing(t)
    BY <1>0, <1>9 DEF IDivZero
  <2> QED BY <1>2, <1>9, <2>2, <2>3 DEF IDivZero
<1>10. CASE QPrep(t)
  <2> DEFINE c == [ctx[t] EXCEPT !.qregs = @ \cup {Arg(t)}, !.qf = TRUE]
  <2>1. Arg(t) \in QIdx
    BY <1>10, OperandType DEF QPrep, Executes
  <2>2. SameFlags(c) /\ c.pc = ctx[t].pc
    BY <1>1, <2>1 DEF Context
  <2>3. run[t] = "exec" /\ Passing(t)
    BY <1>0, <1>10 DEF QPrep
  <2> QED BY <1>2, <1>10, <2>2, <2>3 DEF QPrep
<1>11. CASE QObserve(t)
  <2> DEFINE c == [ctx[t] EXCEPT !.qregs = @ \ {Arg(t)}, !.qf = FALSE]
  <2>1. SameFlags(c) /\ c.pc = ctx[t].pc
    BY <1>1 DEF Context
  <2>2. run[t] = "exec" /\ Passing(t)
    BY <1>0, <1>11 DEF QObserve
  <2> QED BY <1>1, <1>2, <1>11, <2>1, <2>2 DEF QObserve
<1> QED BY <1>3, <1>4, <1>5, <1>6, <1>7, <1>8, <1>9, <1>10, <1>11 DEF Local

LEMMA LocalType == ASSUME TypeOK, NEW t \in Tids, Local(t) PROVE TypeOK'
<1>1. ControlOK /\ SharedOK
  BY TypeParts
<1>2. PICK c \in Context : Retire(t, c) \/ Fault(t, c)
  BY <1>1, LocalContext DEF Ends
<1>3. ControlOK'
  BY <1>1, <1>2, RetireType, FaultType
<1> QED BY <1>3, OnlyControl DEF Local

\* The parts of the type invariant put together in the next state.
LEMMA TypePartsNext ==
    ControlOK' /\ SharedOK' /\ ForkOK' /\ BarrierOK' => TypeOK'
BY TypeParts, PTL

\* ISTR by the leader.
LEMMA StoreSharedType ==
    ASSUME TypeOK, NEW t \in Tids, StoreShared(t) PROVE TypeOK'
<1>1. ControlOK /\ SharedOK /\ ForkOK /\ BarrierOK
  BY TypeParts
<1>2. ctx[t] \in Context /\ Arg(t) \in M!Addr
  BY <1>1, OperandType DEF ControlOK, StoreShared, Executes
<1>3. ControlOK'
  BY <1>1, <1>2, AdvanceType, RetireType DEF StoreShared
<1>4. M!Offset(Region, Arg(t)) \in 0 .. Region.size - 1
  BY <1>2, OffsetType DEF StoreShared
<1>5. ctx[t].acc \in Val
  BY <1>2 DEF Context
<1>6. SharedOK'
  BY <1>1, <1>4, <1>5 DEF StoreShared, SharedOK, Memory
<1>7. ForkOK' /\ BarrierOK'
  BY <1>1, Unchanged DEF StoreShared, fork, barrier
<1> QED BY <1>3, <1>6, <1>7, TypePartsNext

\* HFORK: a context that enters a region.
LEMMA ForkedType ==
    ASSUME NEW c \in Context
    PROVE  LET f == [c EXCEPT !.forked = TRUE, !.merged = FALSE,
                              !.skip = FALSE, !.sharing = TRUE]
           IN  /\ f \in Context
               /\ f.pc = c.pc /\ ~f.skip /\ f.inAtomic = c.inAtomic
<1> DEFINE f1 == [c EXCEPT !.forked = TRUE]
           f2 == [f1 EXCEPT !.merged = FALSE]
           f3 == [f2 EXCEPT !.skip = FALSE]
           f4 == [f3 EXCEPT !.sharing = TRUE]
<1>1. f1 \in Context /\ f1.pc = c.pc /\ f1.inAtomic = c.inAtomic
  BY DEF Context
<1> HIDE DEF f1
<1>2. f2 \in Context /\ f2.pc = c.pc /\ f2.inAtomic = c.inAtomic
  BY <1>1 DEF Context
<1> HIDE DEF f2
<1>3. f3 \in Context /\ f3.pc = c.pc /\ f3.inAtomic = c.inAtomic /\ ~f3.skip
  BY <1>2 DEF Context
<1> HIDE DEF f3
<1>4. f4 \in Context /\ f4.pc = c.pc /\ f4.inAtomic = c.inAtomic /\ ~f4.skip
  BY <1>3 DEF Context
<1> QED BY <1>4 DEF f1, f2, f3

LEMMA HForkType == ASSUME TypeOK, NEW t \in Tids, HFork(t) PROVE TypeOK'
<1>1. ControlOK /\ SharedOK /\ ForkOK /\ BarrierOK
  BY TypeParts
<1>2. ctx[t] \in Context
  BY <1>1 DEF ControlOK
<1>3. ASSUME HForkRefused(t) PROVE TypeOK'
  BY <1>1, <1>2, <1>3, FaultType, OnlyControl DEF HForkRefused
<1>4. ASSUME HForkSingle(t) PROVE TypeOK'
  <2>1. [ctx[t] EXCEPT !.forked = TRUE, !.merged = FALSE] \in Context
    BY <1>2 DEF Context
  <2> QED BY <1>1, <1>4, <2>1, AdvanceType, RetireType, OnlyControl DEF HForkSingle
<1>5. ASSUME t = 0, HForkSetup PROVE TypeOK'
  <2> DEFINE emptied == [ctx[0] EXCEPT !.qregs = {}]
  <2>1. emptied \in Context
    BY <1>2, <1>5 DEF Context
  <2>2. ForkOK'
    BY <1>1, <1>2, <1>5, NAssumption DEF HForkSetup, ForkOK, Context
  <2>3. CASE M!CreationPanics(Region)
    <3>1. Fault(0, emptied) /\ UNCHANGED shared /\ UNCHANGED barrier
      BY <1>5, <2>3 DEF HForkSetup
    <3> QED BY <1>1, <1>5, <2>1, <2>2, <3>1, FaultType, Unchanged, TypePartsNext
  <2>4. CASE ~M!CreationPanics(Region)
    <3>1. /\ Goto(0, "spawning", emptied)
          /\ data' = M!InitialData(Region, ctx[0].cmem)
          /\ snapshot' = data'
      BY <1>5, <2>4 DEF HForkSetup
    <3>2. ControlOK'
      BY <1>1, <1>5, <2>1, <3>1, GotoType DEF RunState
    <3>3. SharedOK'
      BY <1>2, <1>5, <3>1, InitialDataType DEF SharedOK, Context
    <3>4. /\ round' = [u \in Tids |-> 0] /\ verdict' = [u \in Tids |-> FALSE]
          /\ inside' = {} /\ first' = {}
      BY <1>5, <2>4 DEF HForkSetup
    <3>5. BarrierOK'
      BY <3>4, FreshBarrierType
    <3> QED BY <2>2, <3>2, <3>3, <3>5, TypePartsNext
  <2> QED BY <2>3, <2>4
<1>6. ASSUME t = 0, NEW w \in Workers, HForkSpawn(w) PROVE TypeOK'
  <2>1. Advance([ctx[0] EXCEPT !.forked = TRUE, !.merged = FALSE,
                               !.skip = FALSE, !.sharing = TRUE]) \in Context
    BY <1>2, <1>6, ForkedType, AdvanceType
  <2>2. w \in Tids
    BY DEF Workers
  <2>3. ControlOK'
    BY <1>1, <1>6, <2>1, <2>2 DEF HForkSpawn, ControlOK, RunState
  <2>4. ForkOK'
    BY <1>1, <1>6, <2>2, NAssumption DEF HForkSpawn, ForkOK, Tids
  <2>5. SharedOK' /\ BarrierOK'
    BY <1>1, <1>6, Unchanged DEF HForkSpawn, shared, barrier
  <2> QED BY <2>3, <2>4, <2>5, TypePartsNext
<1>7. ASSUME t = 0, HForkSpawnFails PROVE TypeOK'
  BY <1>1, <1>2, <1>7, FaultType, OnlyControl DEF HForkSpawnFails
<1>8. ASSUME t = 0, HForkDone PROVE TypeOK'
  <2>1. ControlOK'
    BY <1>1, <1>2, <1>8, ForkedType, AdvanceType, RetireType DEF HForkDone
  <2>2. ForkOK'
    BY <1>1, <1>8 DEF HForkDone, ForkOK
  <2>3. SharedOK' /\ BarrierOK'
    BY <1>1, <1>8, Unchanged DEF HForkDone, shared, barrier
  <2> QED BY <2>1, <2>2, <2>3, TypePartsNext
<1> QED BY <1>3, <1>4, <1>5, <1>6, <1>7, <1>8 DEF HFork

\* HMERGE.
LEMMA MergeType == ASSUME TypeOK, NEW t \in Tids, Merge(t) PROVE TypeOK'
<1>1. ControlOK /\ SharedOK /\ ForkOK /\ BarrierOK
  BY TypeParts
<1>2. ctx[t] \in Context
  BY <1>1 DEF ControlOK
<1>3. MergeFlags(ctx[t]) \in Context
  BY <1>2 DEF MergeFlags, Context
<1>4. ASSUME HMerge(t) PROVE TypeOK'
  <2>1. \/ Fault(t, ctx[t]) \/ Fault(t, MergeFlags(ctx[t]))
        \/ Retire(t, Advance(MergeFlags(ctx[t]))) \/ Goto(t, "joining", MergeFlags(ctx[t]))
    BY <1>4 DEF HMerge
  <2>2. ControlOK'
    BY <1>1, <1>2, <1>3, <2>1, FaultType, AdvanceType, RetireType, GotoType DEF RunState
  <2> QED BY <1>4, <2>2, OnlyControl DEF HMerge
<1>5. ASSUME t = 0, HMergeJoined PROVE TypeOK'
  <2>1. M!WriteBack(Region, data, ctx[0].cmem) \in [M!Addr -> Val]
    BY <1>1, <1>2, <1>5, WriteBackType DEF SharedOK, Context
  <2>2. Restored(ctx[0]) \in Context
    BY <1>1, <1>2, <1>5, <2>1 DEF Restored, Context, ForkOK
  <2>3. ControlOK'
    BY <1>1, <1>2, <1>5, <2>2, FaultType, AdvanceType, RetireType DEF HMergeJoined
  <2> QED BY <1>5, <2>3, OnlyControl DEF HMergeJoined
<1> QED BY <1>4, <1>5 DEF Merge

\* HATMS.
LEMMA HAtmSType == ASSUME TypeOK, NEW t \in Tids, HAtmS(t) PROVE TypeOK'
<1>1. ControlOK /\ SharedOK /\ ForkOK /\ BarrierOK
  BY TypeParts
<1>2. ctx[t] \in Context
  BY <1>1 DEF ControlOK
<1>3. ASSUME HAtmSAlone(t) PROVE TypeOK'
  <2>1. LeadsAlone(ctx[t]) \in Context
    BY <1>2 DEF LeadsAlone, Context
  <2>2. ControlOK'
    BY <1>1, <1>2, <1>3, <2>1, AdvanceType, RetireType, FaultType DEF HAtmSAlone
  <2> QED BY <1>3, <2>2, OnlyControl DEF HAtmSAlone
<1>4. ASSUME BarrierOK', NEW leader \in BOOLEAN, Elected(t, leader), UNCHANGED <<shared, fork>>
      PROVE  TypeOK'
  <2>1. [ctx[t] EXCEPT !.inAtomic = leader, !.skip = ~leader] \in Context
    BY <1>2 DEF Context
  <2>2. ControlOK'
    BY <1>1, <1>4, <2>1, AdvanceType, RetireType DEF Elected
  <2>3. SharedOK' /\ ForkOK'
    BY <1>1, <1>4, Unchanged DEF shared, fork
  <2> QED BY <1>4, <2>2, <2>3, TypePartsNext
<1>5. ASSUME HAtmSArrive(t) PROVE TypeOK'
  <2>1. BarrierOK'
    BY <1>1, <1>5, BarrierStepType DEF HAtmSArrive
  <2>2. verdict'[t] \in BOOLEAN
    BY <2>1 DEF BarrierOK
  <2>3. CASE Goto(t, "hatms", ctx[t])
    <3>1. ControlOK'
      BY <1>1, <1>2, <2>3, GotoType DEF RunState
    <3>2. SharedOK' /\ ForkOK'
      BY <1>1, <1>5, Unchanged DEF HAtmSArrive, shared, fork
    <3> QED BY <2>1, <3>1, <3>2, TypePartsNext
  <2>4. CASE Elected(t, verdict'[t])
    BY <1>4, <1>5, <2>1, <2>2, <2>4 DEF HAtmSArrive
  <2> QED BY <1>5, <2>3, <2>4 DEF HAtmSArrive
<1>6. ASSUME HAtmSReturn(t) PROVE TypeOK'
  <2>1. BarrierOK'
    BY <1>1, <1>6, BarrierStepType DEF HAtmSReturn
  <2>2. verdict'[t] \in BOOLEAN
    BY <2>1 DEF BarrierOK
  <2> QED BY <1>4, <1>6, <2>1, <2>2 DEF HAtmSReturn
<1> QED BY <1>3, <1>5, <1>6 DEF HAtmS

\* HATME.
LEMMA HAtmEType == ASSUME TypeOK, NEW t \in Tids, HAtmE(t) PROVE TypeOK'
<1>1. ControlOK /\ SharedOK /\ ForkOK /\ BarrierOK
  BY TypeParts
<1>2. ctx[t] \in Context
  BY <1>1 DEF ControlOK
<1>3. /\ [ctx[t] EXCEPT !.inAtomic = FALSE, !.skip = FALSE] \in Context
      /\ [ctx[t] EXCEPT !.skip = FALSE] \in Context
  BY <1>2 DEF Context
<1>4. ASSUME HAtmEAlone(t) PROVE TypeOK'
  <2>1. ControlOK'
    BY <1>1, <1>3, <1>4, AdvanceType, RetireType, FaultType DEF HAtmEAlone
  <2> QED BY <1>4, <2>1, OnlyControl DEF HAtmEAlone
<1>5. ASSUME HAtmECommit(t) PROVE TypeOK'
  <2>1. ControlOK'
    BY <1>1, <1>3, <1>5, GotoType DEF HAtmECommit, RunState
  <2>2. SharedOK'
    BY <1>1, <1>5 DEF HAtmECommit, SharedOK, Committed
  <2>3. ForkOK' /\ BarrierOK'
    BY <1>1, <1>5, Unchanged DEF HAtmECommit, fork, barrier
  <2> QED BY <2>1, <2>2, <2>3, TypePartsNext
<1>6. ASSUME HAtmEArrive(t) PROVE TypeOK'
  <2>1. BarrierOK'
    BY <1>1, <1>6, BarrierStepType DEF HAtmEArrive, Close
  <2>2. ControlOK'
    BY <1>1, <1>3, <1>6, GotoType, AdvanceType, RetireType DEF HAtmEArrive, Close, RunState
  <2>3. SharedOK' /\ ForkOK'
    BY <1>1, <1>6, Unchanged DEF HAtmEArrive, shared, fork
  <2> QED BY <2>1, <2>2, <2>3, TypePartsNext
<1>7. ASSUME HAtmEReturn(t) PROVE TypeOK'
  <2>1. BarrierOK'
    BY <1>1, <1>7, BarrierStepType DEF HAtmEReturn
  <2>2. ControlOK'
    BY <1>1, <1>2, <1>7, AdvanceType, RetireType DEF HAtmEReturn
  <2>3. SharedOK' /\ ForkOK'
    BY <1>1, <1>7, Unchanged DEF HAtmEReturn, shared, fork
  <2> QED BY <2>1, <2>2, <2>3, TypePartsNext
<1> QED BY <1>4, <1>5, <1>6, <1>7 DEF HAtmE

-----------------------------------------------------------------------------
\* Every variable keeps its type, whatever the program and however many threads
\* run it: in particular no load, store or commit leaves the shared region, and
\* HMERGE's write-back leaves a CMEM image.
THEOREM SpmdTypeCorrect == Spec => []TypeOK
<1>1. Init => TypeOK
  <2> SUFFICES ASSUME Init PROVE TypeOK
    OBVIOUS
  <2>1. ControlOK
    BY NewContextType DEF Init, ControlOK, RunState
  <2>2. SharedOK
    <3>1. NewContext.cmem \in [M!Addr -> Val]
      BY NewContextType DEF Context
    <3> QED BY <3>1, InitialDataType DEF Init, SharedOK
  <2>3. ForkOK
    <3>1. 1 \in 1 .. N /\ FALSE \in BOOLEAN
      BY NAssumption
    <3>2. qfile = {} /\ nextTid = 1 /\ hasBarrier = FALSE
      BY DEF Init
    <3>3. nextTid \in 1 .. N
      BY <3>1, <3>2
    <3> QED BY <3>2, <3>3 DEF ForkOK
  <2>4. BarrierOK
    BY FreshBarrierType DEF Init
  <2> QED BY <2>1, <2>2, <2>3, <2>4, TypeParts
<1>2. TypeOK /\ [Next]_vars => TypeOK'
  <2> SUFFICES ASSUME TypeOK, [Next]_vars PROVE TypeOK'
    OBVIOUS
  <2>1. ASSUME NEW t \in Tids, Step(t) PROVE TypeOK'
    BY <2>1, LocalType, StoreSharedType, HForkType, HAtmSType, HAtmEType, MergeType DEF Step
  <2>2. CASE UNCHANGED vars
    <3>1. ControlOK'
      BY <2>2, TypeParts DEF vars, ControlOK
    <3> QED BY <2>2, <3>1, OnlyControl DEF vars
  <2> QED BY <2>1, <2>2 DEF Next, Done
<1> QED BY <1>1, <1>2, PTL DEF Spec

-----------------------------------------------------------------------------
(***************************************************************************)
(* Atomic sections exclude each other.  ExclusiveSection is not inductive: *)
(* the leader-to-be gets its section while it is still asleep in the       *)
(* barrier, at the moment the last thread arrives.  Holds(t) therefore     *)
(* counts the section from that moment, and the rest of SectionInv says    *)
(* why nobody else is in a section then: everybody has entered the round.  *)
(***************************************************************************)
\* t is blocked in the barrier; t does not execute (yet, or any more).
Waits(t) == run[t] \in {"hatms", "hatme"}
Parked(t) == run[t] \in Ended \cup {"idle"}

\* The barrier knows who waits in it.
InsideIsWaiting == \A t \in Tids : t \in inside <=> Waits(t)

\* Nobody is a whole round ahead of a thread that is not inside.
Lockstep ==
    \A t, u \in Tids : round[t] < round[u] => t \in inside /\ round[u] = round[t] + 1

\* A round has one first thread.
OneFirst ==
    \A t, u \in Tids : t \in first /\ u \in first /\ round[t] = round[u] => t = u

\* A round that everybody has entered has been left by the last one to enter.
LastHasPassed ==
    \A t \in inside :
        (\A u \in Tids : R!HasEntered(u, t)) => \E u \in Tids : round[u] > round[t]

\* in_atomic_section is set only inside a region, and never where t is about to
\* leave a section, to spawn or to join.
Flags ==
    \A t \in Tids :
        /\ ctx[t].inAtomic => ctx[t].forked
        /\ run[t] = "hatms" => ctx[t].forked
        /\ run[t] \in {"hatme", "committed", "joining", "spawning"} => ~ctx[t].inAtomic

\* Outside a region thread 0 runs alone; while it spawns, only the workers spawned
\* already run.
Alone ==
    /\ run[0] \in {"exec", "hatme", "committed"} /\ ~ctx[0].forked
         => \A w \in Workers : Parked(w)
    /\ run[0] = "spawning" => \A w \in Workers : w >= nextTid => Parked(w)

\* t is in its section, or will be as soon as it leaves the barrier it waits in.
Holds(t) ==
    \/ InSection(t)
    \/ /\ run[t] = "hatms" /\ t \in first
       /\ \E u \in Tids : round[u] > round[t]
OneHolder == \A t, u \in Tids : Holds(t) /\ Holds(u) => t = u

SectionInv ==
    /\ InsideIsWaiting
    /\ Lockstep
    /\ OneFirst
    /\ LastHasPassed
    /\ Flags
    /\ Alone
    /\ OneHolder

-----------------------------------------------------------------------------
(***************************************************************************)
(* The barrier keeps its part of the invariant.                            *)
(***************************************************************************)
RoundInv == Lockstep /\ OneFirst /\ LastHasPassed

LEMMA EnterRounds ==
    ASSUME BarrierOK, RoundInv, NEW t \in Tids, R!Enter(t) PROVE RoundInv'
<1>1. /\ t \notin inside /\ inside' = inside \cup {t} /\ round' = round
      /\ first' \subseteq first \cup {t}
  BY DEF R!Enter
<1>2. Lockstep'
  BY <1>1 DEF RoundInv, Lockstep
<1>3. OneFirst'
  <2>1. ASSUME NEW x \in first PROVE x \in Tids /\ x \in inside
    BY <2>1 DEF BarrierOK
  <2>2. ASSUME t \in first', NEW u \in first, round[u] = round[t] PROVE FALSE
    BY <1>1, <2>1, <2>2 DEF R!Enter, R!HasEntered
  <2> QED BY <1>1, <2>1, <2>2 DEF RoundInv, OneFirst
<1>4. LastHasPassed'
  <2> SUFFICES ASSUME NEW x \in inside', \A u \in Tids : R!HasEntered(u, x)'
               PROVE  \E u \in Tids : round[u] > round[x]
    BY <1>1 DEF LastHasPassed
  <2>1. PICK m \in Tids \ {t} : ~R!HasEntered(m, t)
    BY DEF R!Enter
  <2>2. x \in Tids /\ \A u \in Tids : round[u] \in Nat
    BY <1>1 DEF BarrierOK
  <2>3. R!HasEntered(m, x)' /\ R!HasEntered(t, x)'
    BY <2>1
  <2>4. round[m] > round[x] \/ (round[m] = round[x] /\ m \in inside)
    BY <1>1, <2>1, <2>3 DEF R!HasEntered
  <2>5. round[t] >= round[x]
    BY <1>1, <2>2, <2>3 DEF R!HasEntered
  <2>6. CASE round[t] = round[x]
    BY <2>1, <2>2, <2>4, <2>6 DEF R!HasEntered
  <2>7. CASE round[t] > round[x]
    BY <2>7
  <2> QED BY <2>2, <2>5, <2>6, <2>7
<1> QED BY <1>2, <1>3, <1>4 DEF RoundInv

\* When t passes, everybody else sits in the same round.
LEMMA PassTogether ==
    ASSUME BarrierOK, RoundInv, NEW t \in Tids, R!Pass(t), NEW u \in Tids \ {t}
    PROVE  u \in inside /\ round[u] = round[t]
<1>1. R!HasEntered(u, t) /\ t \notin inside
  BY DEF R!Pass
<1>2. ~(round[t] < round[u])
  BY <1>1 DEF RoundInv, Lockstep
<1> QED BY <1>1, <1>2 DEF BarrierOK, R!HasEntered

LEMMA PassRounds ==
    ASSUME BarrierOK, RoundInv, NEW t \in Tids, R!Pass(t) PROVE RoundInv'
<1>1. /\ t \notin inside /\ inside' = inside /\ first' = first
      /\ round' = [round EXCEPT ![t] = @ + 1]
  BY DEF R!Pass
<1>2. /\ round'[t] = round[t] + 1 /\ round[t] \in Nat
      /\ \A u \in Tids \ {t} : round'[u] = round[t] /\ u \in inside
  BY <1>1, PassTogether DEF BarrierOK
<1>3. Lockstep'
  BY <1>1, <1>2 DEF Lockstep
<1>4. OneFirst'
  <2>1. first \subseteq Tids \ {t}
    BY <1>1 DEF BarrierOK
  <2>2. \A u \in Tids \ {t} : round[u] = round[t]
    BY PassTogether
  <2> QED BY <1>1, <2>1, <2>2 DEF RoundInv, OneFirst
<1>5. LastHasPassed'
  <2>1. inside \subseteq Tids \ {t}
    BY <1>1 DEF BarrierOK
  <2> QED BY <1>1, <1>2, <2>1 DEF LastHasPassed
<1> QED BY <1>3, <1>4, <1>5 DEF RoundInv

LEMMA LeaveRounds ==
    ASSUME BarrierOK, RoundInv, NEW t \in Tids, R!Leave(t) PROVE RoundInv'
<1>1. /\ t \in inside /\ inside' = inside \ {t} /\ first' = first \ {t}
      /\ round' = [round EXCEPT ![t] = @ + 1]
      /\ \A u \in Tids : R!HasEntered(u, t)
  BY DEF R!Leave
<1>2. /\ \A u \in Tids : round[u] \in Nat
      /\ round'[t] = round[t] + 1
      /\ \A u \in Tids \ {t} : round'[u] = round[u]
      /\ first \subseteq inside /\ inside \subseteq Tids
  BY <1>1 DEF BarrierOK
<1>3. \A u \in Tids \ {t} :
         \/ round[u] = round[t] + 1
         \/ round[u] = round[t] /\ u \in inside
  BY <1>1, <1>2 DEF RoundInv, Lockstep, R!HasEntered
<1>4. Lockstep'
  <2> SUFFICES ASSUME NEW x \in Tids, NEW y \in Tids, round'[x] < round'[y]
               PROVE  x \in inside' /\ round'[y] = round'[x] + 1
    BY DEF Lockstep
  <2>1. CASE x = t
    BY <1>2, <1>3, <2>1
  <2>2. CASE x # t /\ y = t
    BY <1>1, <1>2, <1>3, <2>2
  <2>3. CASE x # t /\ y # t
    BY <1>1, <1>2, <2>3 DEF RoundInv, Lockstep
  <2> QED BY <2>1, <2>2, <2>3
<1>5. OneFirst'
  BY <1>1, <1>2 DEF RoundInv, OneFirst
<1>6. LastHasPassed'
  <2> SUFFICES ASSUME NEW x \in inside', \A u \in Tids : R!HasEntered(u, x)'
               PROVE  \E u \in Tids : round'[u] > round'[x]
    BY DEF LastHasPassed
  <2>1. x \in Tids \ {t} /\ t \notin inside'
    BY <1>1, <1>2
  <2>2. R!HasEntered(t, x)'
    OBVIOUS
  <2>3. round'[t] > round'[x]
    BY <2>1, <2>2 DEF R!HasEntered
  <2> QED BY <2>3
<1> QED BY <1>4, <1>5, <1>6 DEF RoundInv

-----------------------------------------------------------------------------
(***************************************************************************)
(* What a step of t does to the flags and to the place of each thread.     *)
(***************************************************************************)
OthersStay(t) ==
    \A u \in Tids \ {t} : ctx'[u] = ctx[u] /\ run'[u] = run[u]

LEMMA RetireFrame ==
    ASSUME ControlOK, NEW t \in Tids, NEW c \in Context, Retire(t, c)
    PROVE  /\ OthersStay(t) /\ run'[t] \in {"exec", "exited"}
           /\ ctx'[t].inAtomic = c.inAtomic /\ ctx'[t].forked = c.forked
           /\ ctx'[t].merged = c.merged /\ ctx'[t].sharing = c.sharing
<1> DEFINE e == Limited(t, Dispatched(t, c))
<1>1. /\ e.inAtomic = c.inAtomic /\ e.forked = c.forked
      /\ e.merged = c.merged /\ e.sharing = c.sharing
  BY DEF Limited, Dispatched, Context
<1>2. ctx' = [ctx EXCEPT ![t] = e]
  BY DEF Retire
<1> QED BY <1>1, <1>2 DEF Retire, ControlOK, OthersStay

LEMMA FaultFrame ==
    ASSUME ControlOK, NEW t \in Tids, NEW c \in Context, Fault(t, c)
    PROVE  OthersStay(t) /\ run'[t] = "failed" /\ ctx'[t] = c
BY DEF Fault, ControlOK, OthersStay

LEMMA GotoFrame ==
    ASSUME ControlOK, NEW t \in Tids, NEW c \in Context, NEW place, Goto(t, place, c)
    PROVE  OthersStay(t) /\ run'[t] = place /\ ctx'[t] = c
BY DEF Goto, ControlOK, OthersStay

\* A worker that runs is one of those Alone allows to run.
LEMMA WorkerKeepsAlone ==
    ASSUME Alone, NEW t \in Workers, ~Parked(t), OthersStay(t), nextTid' = nextTid
    PROVE  Alone'
<1>1. 0 \in Tids \ {t}
  BY NAssumption DEF Workers, Tids
<1>2. ctx'[0] = ctx[0] /\ run'[0] = run[0]
  BY <1>1 DEF OthersStay
<1>3. \A w \in Workers \ {t} : run'[w] = run[w]
  BY DEF Workers, OthersStay
<1> QED BY <1>2, <1>3 DEF Alone, Parked

\* Thread 0 keeps Alone if it runs outside a region only when it did before.
LEMMA MainKeepsAlone ==
    ASSUME Alone, OthersStay(0), run'[0] # "spawning",
           run'[0] \in {"exec", "hatme", "committed"} /\ ~ctx'[0].forked
             => run[0] \in {"exec", "hatme", "committed"} /\ ~ctx[0].forked
    PROVE  Alone'
<1>1. \A w \in Workers : run'[w] = run[w]
  BY DEF Workers, OthersStay
<1> QED BY <1>1 DEF Alone, Parked

\* A step of t that does not involve the barrier: it starts and ends outside, and
\* it does not open a section (except for a single thread).
Quiet(t) ==
    /\ UNCHANGED barrier /\ OthersStay(t)
    /\ run[t] \notin {"hatms", "hatme"} /\ run'[t] \notin {"hatms", "hatme"}
    /\ ctx'[t].inAtomic => ctx'[t].forked /\ run'[t] \in {"exec", "exited", "failed"}
    /\ run'[t] = "exec" /\ ctx'[t].inAtomic => InSection(t) \/ N = 1

LEMMA QuietKeeps ==
    ASSUME BarrierOK, SectionInv, NEW t \in Tids, Quiet(t), Alone' PROVE SectionInv'
<1>1. UNCHANGED <<round, inside, first>>
  BY DEF Quiet, barrier
<1>2. InsideIsWaiting'
  BY <1>1 DEF SectionInv, InsideIsWaiting, Waits, Quiet, OthersStay
<1>3. Lockstep' /\ OneFirst'
  BY <1>1 DEF SectionInv, Lockstep, OneFirst
<1>4. LastHasPassed'
  BY <1>1 DEF SectionInv, LastHasPassed, R!HasEntered
<1>5. Flags'
  BY DEF SectionInv, Flags, Quiet, OthersStay
<1>6. OneHolder'
  <2>1. CASE N = 1
    BY <2>1 DEF OneHolder, Tids
  <2>2. CASE N # 1
    <3>1. \A u \in Tids : Holds(u)' => Holds(u)
      BY <1>1, <2>2 DEF Holds, InSection, Quiet, OthersStay
    <3> QED BY <3>1 DEF SectionInv, OneHolder
  <2> QED BY <2>1, <2>2
<1> QED BY <1>2, <1>3, <1>4, <1>5, <1>6 DEF SectionInv

\* t enters a round and blocks: it holds nothing, nobody being ahead of it.
LEMMA EnterKeeps ==
    ASSUME BarrierOK, SectionInv, NEW t \in Tids, R!Enter(t), OthersStay(t), Alone',
           run'[t] \in {"hatms", "hatme"},
           ctx'[t].inAtomic => ctx'[t].forked /\ run'[t] = "hatms",
           run'[t] = "hatms" => ctx'[t].forked
    PROVE  SectionInv'
<1>1. /\ t \notin inside /\ inside' = inside \cup {t} /\ round' = round
      /\ \A u \in Tids \ {t} : u \in first' <=> u \in first
  BY DEF R!Enter
<1>2. InsideIsWaiting'
  BY <1>1 DEF SectionInv, InsideIsWaiting, Waits, OthersStay
<1>3. RoundInv'
  BY EnterRounds DEF SectionInv, RoundInv
<1>4. Flags'
  BY DEF SectionInv, Flags, OthersStay
<1>5. OneHolder'
  <2>1. ~Holds(t)'
    BY <1>1 DEF Holds, InSection, SectionInv, Lockstep, BarrierOK
  <2>2. \A u \in Tids \ {t} : Holds(u)' => Holds(u)
    BY <1>1 DEF Holds, InSection, OthersStay
  <2> QED BY <2>1, <2>2 DEF SectionInv, OneHolder
<1> QED BY <1>2, <1>3, <1>4, <1>5 DEF SectionInv, RoundInv

\* t arrives last: it opens the section of the one first thread of the round.
LEMMA PassKeeps ==
    ASSUME BarrierOK, SectionInv, NEW t \in Tids, R!Pass(t), OthersStay(t), Alone',
           run[t] \notin {"hatms", "hatme"}, run'[t] \in {"exec", "exited"}, ~ctx'[t].inAtomic
    PROVE  SectionInv'
<1>1. /\ t \notin inside /\ inside' = inside /\ first' = first
      /\ \A u \in Tids \ {t} : u \in inside /\ round[u] = round[t]
  BY PassTogether DEF R!Pass, SectionInv, RoundInv
<1>2. InsideIsWaiting'
  BY <1>1 DEF SectionInv, InsideIsWaiting, Waits, OthersStay
<1>3. RoundInv'
  BY PassRounds DEF SectionInv, RoundInv
<1>4. Flags'
  BY DEF SectionInv, Flags, OthersStay
<1>5. OneHolder'
  <2>1. ~Holds(t)'
    BY <1>1 DEF Holds, InSection, BarrierOK
  <2>2. \A u \in Tids \ {t} : Holds(u)' => u \in first
    BY <1>1 DEF Holds, InSection, SectionInv, InsideIsWaiting, Waits, OthersStay
  <2>3. \A u, v \in Tids \ {t} : u \in first /\ v \in first => u = v
    BY <1>1 DEF SectionInv, OneFirst
  <2> QED BY <2>1, <2>2, <2>3 DEF OneHolder
<1> QED BY <1>2, <1>3, <1>4, <1>5 DEF SectionInv, RoundInv

\* t leaves a round: if it is told to lead, it held the section already.
LEMMA LeaveKeeps ==
    ASSUME BarrierOK, SectionInv, NEW t \in Tids, R!Leave(t), OthersStay(t), Alone',
           run'[t] \in {"exec", "exited"},
           ctx'[t].inAtomic => run[t] = "hatms" /\ t \in first /\ ctx'[t].forked
    PROVE  SectionInv'
<1>1. /\ t \in inside /\ inside' = inside \ {t}
      /\ \A u \in Tids \ {t} : round'[u] = round[u] /\ (u \in first' <=> u \in first)
      /\ round'[t] = round[t] + 1
      /\ \A u \in Tids : R!HasEntered(u, t)
  BY DEF R!Leave, BarrierOK
<1>2. InsideIsWaiting'
  BY <1>1 DEF SectionInv, InsideIsWaiting, Waits, OthersStay
<1>3. RoundInv'
  BY LeaveRounds DEF SectionInv, RoundInv
<1>4. Flags'
  BY DEF SectionInv, Flags, OthersStay
<1>5. PICK m \in Tids : round[m] > round[t]
  BY <1>1 DEF SectionInv, LastHasPassed
<1>6. OneHolder'
  <2>1. Holds(t)' => Holds(t)
    BY <1>5 DEF Holds, InSection
  <2>2. ASSUME NEW u \in Tids \ {t}, Holds(u)' PROVE Holds(u)
    <3>1. CASE InSection(u)'
      BY <3>1 DEF Holds, InSection, OthersStay
    <3>2. CASE ~InSection(u)'
      <4>1. PICK x \in Tids : round'[x] > round'[u]
        BY <2>2, <3>2 DEF Holds
      <4>2. run[u] = "hatms" /\ u \in first
        BY <1>1, <2>2, <3>2 DEF Holds, OthersStay
      <4>3. CASE x # t
        BY <1>1, <4>1, <4>2, <4>3 DEF Holds
      <4>4. CASE x = t
        <5>1. round[u] \in Nat /\ round[t] \in Nat /\ round[m] \in Nat
          BY DEF BarrierOK
        <5>2. round[u] <= round[t]
          BY <1>1, <4>1, <4>4, <5>1
        <5>3. round[m] > round[u]
          BY <1>5, <5>1, <5>2
        <5> QED BY <4>2, <5>3 DEF Holds
      <4> QED BY <4>3, <4>4
    <3> QED BY <3>1, <3>2
  <2> QED BY <2>1, <2>2 DEF SectionInv, OneHolder
<1> QED BY <1>2, <1>3, <1>4, <1>6 DEF SectionInv, RoundInv

-----------------------------------------------------------------------------
(***************************************************************************)
(* Every action keeps SectionInv.                                          *)
(***************************************************************************)

\* An instruction of t that ends, Ok or not, away from the barrier.
LEMMA EndKeeps ==
    ASSUME TypeOK, SectionInv, NEW t \in Tids, NEW c \in Context,
           Retire(t, c) \/ Fault(t, c), run[t] = "exec", UNCHANGED <<fork, barrier>>,
           c.inAtomic => c.forked /\ (ctx[t].inAtomic \/ N = 1),
           c.forked \/ ~ctx[t].forked \/ t # 0 \/ N = 1 \/ Fault(t, c)
    PROVE  SectionInv'
<1>1. ControlOK /\ BarrierOK
  BY TypeParts
<1>2. /\ OthersStay(t) /\ run'[t] \in {"exec", "exited", "failed"}
      /\ Fault(t, c) => run'[t] = "failed"
      /\ ctx'[t].inAtomic = c.inAtomic /\ ctx'[t].forked = c.forked
  BY <1>1, RetireFrame, FaultFrame
<1>3. Quiet(t)
  BY <1>2 DEF Quiet, InSection
<1>4. Alone'
  <2>1. CASE t # 0
    BY <1>2, <2>1, WorkerKeepsAlone DEF Workers, Parked, Ended, fork, SectionInv
  <2>2. CASE t = 0 /\ N # 1
    BY <1>2, <2>2, MainKeepsAlone DEF SectionInv
  <2>3. CASE N = 1
    BY <2>3 DEF Alone, Workers, Tids
  <2> QED BY <2>1, <2>2, <2>3
<1> QED BY <1>1, <1>3, <1>4, QuietKeeps

LEMMA LocalSection == ASSUME TypeOK, SectionInv, NEW t \in Tids, Local(t) PROVE SectionInv'
<1>1. ControlOK /\ SharedOK
  BY TypeParts
<1>2. PICK c \in Context : Ends(t, c)
  BY <1>1, LocalContext
<1>3. c.inAtomic => c.forked /\ ctx[t].inAtomic
  BY <1>2 DEF Ends, SectionInv, Flags
<1> QED BY <1>2, <1>3, EndKeeps DEF Ends, Local, fork, barrier

LEMMA StoreSharedSection ==
    ASSUME TypeOK, SectionInv, NEW t \in Tids, StoreShared(t) PROVE SectionInv'
<1>1. ctx[t] \in Context
  BY TypeParts DEF ControlOK
<1>2. ctx[t].inAtomic => ctx[t].forked
  BY DEF SectionInv, Flags
<1> QED BY <1>1, <1>2, AdvanceType, EndKeeps DEF StoreShared, Executes, At

\* HFORK: workers start outside any section, on a barrier nobody uses.
LEMMA HForkSection == ASSUME TypeOK, SectionInv, NEW t \in Tids, HFork(t) PROVE SectionInv'
<1>1. ControlOK /\ BarrierOK
  BY TypeParts
<1>2. ctx[t] \in Context /\ (ctx[t].inAtomic => ctx[t].forked)
  BY <1>1 DEF ControlOK, SectionInv, Flags
<1>3. CASE HForkRefused(t)
  BY <1>2, <1>3, EndKeeps DEF HForkRefused, Executes, At, fork, barrier
<1>4. CASE HForkSingle(t)
  <2> DEFINE c == Advance([ctx[t] EXCEPT !.forked = TRUE, !.merged = FALSE])
  <2>1. c \in Context /\ c.forked
    <3> DEFINE d == [ctx[t] EXCEPT !.forked = TRUE, !.merged = FALSE]
    <3>1. d \in Context /\ d.forked
      BY <1>2 DEF Context
    <3> QED BY <3>1, AdvanceType
  <2> QED BY <1>4, <2>1, EndKeeps DEF HForkSingle, Executes, At, fork, barrier
<1>5. ASSUME t = 0, HForkSetup PROVE SectionInv'
  <2> DEFINE emptied == [ctx[0] EXCEPT !.qregs = {}]
  <2>1. /\ emptied \in Context /\ ~emptied.inAtomic /\ ~emptied.forked
        /\ run[0] = "exec"
    BY <1>2, <1>5 DEF HForkSetup, Executes, At, Context
  <2>2. \A w \in Workers : Parked(w)
    BY <1>5, <2>1 DEF HForkSetup, SectionInv, Alone
  <2>3. CASE M!CreationPanics(Region)
    <3>1. Fault(0, emptied) /\ UNCHANGED barrier
      BY <1>5, <2>3 DEF HForkSetup
    <3>2. OthersStay(0) /\ run'[0] = "failed" /\ ctx'[0] = emptied
      BY <1>1, <1>5, <2>1, <3>1, FaultFrame
    <3>3. Alone'
      BY <3>2, MainKeepsAlone DEF SectionInv
    <3>4. Quiet(0)
      BY <2>1, <3>1, <3>2 DEF Quiet
    <3> QED BY <1>1, <1>5, <3>3, <3>4, QuietKeeps
  <2>4. CASE ~M!CreationPanics(Region)
    <3>1. Goto(0, "spawning", emptied)
      BY <1>5, <2>4 DEF HForkSetup
    <3>2. /\ round' = [u \in Tids |-> 0] /\ inside' = {} /\ first' = {}
      BY <1>5, <2>4 DEF HForkSetup
    <3>3. OthersStay(0) /\ run'[0] = "spawning" /\ ctx'[0] = emptied
      BY <1>1, <1>5, <2>1, <3>1, GotoFrame
    <3>4. \A w \in Workers : Parked(w)' /\ run'[w] = run[w]
      BY <2>2, <3>3 DEF OthersStay, Workers, Parked
    <3>5. Tids = Workers \cup {0}
      BY NAssumption DEF Workers, Tids
    <3>6. \A u \in Tids : ~Waits(u)' /\ ~InSection(u)' /\ run'[u] # "hatms"
      BY <3>3, <3>4, <3>5 DEF Waits, Parked, Ended, InSection
    <3>7. InsideIsWaiting' /\ OneHolder'
      BY <3>2, <3>6 DEF InsideIsWaiting, OneHolder, Holds
    <3>8. Lockstep' /\ OneFirst' /\ LastHasPassed'
      BY <3>2 DEF Lockstep, OneFirst, LastHasPassed
    <3>9. Flags'
      BY <2>1, <3>3, <3>5 DEF SectionInv, Flags, OthersStay
    <3>10. Alone'
      BY <3>3, <3>4 DEF Alone
    <3> QED BY <3>7, <3>8, <3>9, <3>10 DEF SectionInv
  <2> QED BY <2>3, <2>4
<1>6. ASSUME t = 0, NEW w \in Workers, HForkSpawn(w) PROVE SectionInv'
  <2> DEFINE clone == Advance([ctx[0] EXCEPT !.forked = TRUE, !.merged = FALSE,
                                             !.skip = FALSE, !.sharing = TRUE])
  <2>1. run[0] = "spawning" /\ nextTid = w /\ nextTid' = nextTid + 1 /\ UNCHANGED barrier
    BY <1>6 DEF HForkSpawn
  <2>2. clone.inAtomic = ctx[0].inAtomic /\ ~ctx[0].inAtomic
    BY <1>2, <1>6, <2>1 DEF Advance, Context, SectionInv, Flags
  <2>3. Parked(w) /\ w \in Tids /\ w # 0 /\ w \in Nat
    BY <2>1, NAssumption DEF SectionInv, Alone, Workers, Tids
  <2>4. OthersStay(w) /\ run'[w] \in {"exec", "exited"} /\ ~ctx'[w].inAtomic
    BY <1>1, <1>6, <2>2, <2>3 DEF HForkSpawn, ControlOK, OthersStay
  <2>5. Alone'
    <3>1. run'[0] = "spawning"
      BY <1>6, <2>1, <2>3, <2>4 DEF OthersStay
    <3>2. ASSUME NEW v \in Workers, v >= nextTid' PROVE Parked(v)'
      <4>1. v \in Tids /\ v \in Nat
        BY DEF Workers, Tids
      <4>2. v # w /\ v >= nextTid
        BY <2>1, <2>3, <3>2, <4>1
      <4> QED BY <2>1, <2>4, <4>1, <4>2 DEF SectionInv, Alone, OthersStay, Parked
    <3> QED BY <3>1, <3>2 DEF Alone
  <2>6. Quiet(w)
    BY <2>1, <2>3, <2>4 DEF Quiet, Parked, Ended
  <2> QED BY <1>1, <2>3, <2>5, <2>6, QuietKeeps
<1>7. ASSUME t = 0, HForkSpawnFails PROVE SectionInv'
  <2>1. OthersStay(0) /\ run'[0] = "failed" /\ ctx'[0] = ctx[0]
    BY <1>1, <1>2, <1>7, FaultFrame DEF HForkSpawnFails
  <2>2. Alone'
    BY <2>1, MainKeepsAlone DEF SectionInv
  <2>3. Quiet(0)
    BY <1>2, <1>7, <2>1 DEF Quiet, HForkSpawnFails
  <2> QED BY <1>1, <1>7, <2>2, <2>3, QuietKeeps
<1>8. ASSUME t = 0, HForkDone PROVE SectionInv'
  <2> DEFINE c == Advance([ctx[0] EXCEPT !.forked = TRUE, !.merged = FALSE,
                                         !.skip = FALSE, !.sharing = TRUE])
  <2>1. c \in Context /\ c.forked /\ c.inAtomic = ctx[0].inAtomic
    <3> DEFINE d == [ctx[0] EXCEPT !.forked = TRUE, !.merged = FALSE,
                                   !.skip = FALSE, !.sharing = TRUE]
    <3>1. d \in Context /\ d.forked /\ d.inAtomic = ctx[0].inAtomic
      BY <1>2, <1>8 DEF Context
    <3> QED BY <3>1, AdvanceType
  <2>2. run[0] = "spawning" /\ ~ctx[0].inAtomic /\ UNCHANGED barrier
    BY <1>8 DEF HForkDone, SectionInv, Flags
  <2>3. /\ OthersStay(0) /\ run'[0] \in {"exec", "exited"}
        /\ ctx'[0].forked /\ ~ctx'[0].inAtomic
    BY <1>1, <1>8, <2>1, <2>2, RetireFrame DEF HForkDone
  <2>4. Alone'
    BY <2>3, MainKeepsAlone DEF SectionInv
  <2>5. Quiet(0)
    BY <2>2, <2>3 DEF Quiet
  <2> QED BY <1>1, <1>8, <2>4, <2>5, QuietKeeps
<1> QED BY <1>3, <1>4, <1>5, <1>6, <1>7, <1>8 DEF HFork

\* HMERGE: thread 0 goes on alone only after every worker has ended.
LEMMA MergeSection == ASSUME TypeOK, SectionInv, NEW t \in Tids, Merge(t) PROVE SectionInv'
<1>1. ControlOK /\ SharedOK /\ ForkOK /\ BarrierOK
  BY TypeParts
<1>2. ctx[t] \in Context /\ (ctx[t].inAtomic => ctx[t].forked)
  BY <1>1 DEF ControlOK, SectionInv, Flags
<1>3. ASSUME HMerge(t) PROVE SectionInv'
  <2> DEFINE c == MergeFlags(ctx[t])
  <2>1. /\ c \in Context /\ ~c.inAtomic
        /\ Advance(c) \in Context /\ ~Advance(c).inAtomic
    <3>1. c \in Context /\ ~c.inAtomic
      BY <1>2 DEF MergeFlags, Context
    <3> QED BY <3>1, AdvanceType
  <2>2. run[t] = "exec" /\ UNCHANGED <<fork, barrier>>
    BY <1>3 DEF HMerge, Executes, At
  <2>3. CASE Fault(t, ctx[t]) \/ Fault(t, c)
    BY <1>2, <2>1, <2>2, <2>3, EndKeeps
  <2>4. CASE (t # 0 \/ N = 1) /\ Retire(t, Advance(c))
    BY <2>1, <2>2, <2>4, EndKeeps
  <2>5. CASE t = 0 /\ Goto(t, "joining", c)
    <3>1. OthersStay(0) /\ run'[0] = "joining" /\ ~ctx'[0].inAtomic
      BY <1>1, <2>1, <2>5, GotoFrame
    <3>2. Alone'
      BY <3>1, MainKeepsAlone DEF SectionInv
    <3>3. Quiet(0)
      BY <2>2, <2>5, <3>1 DEF Quiet
    <3> QED BY <1>1, <2>5, <3>2, <3>3, QuietKeeps
  <2> QED BY <1>3, <2>3, <2>4, <2>5 DEF HMerge
<1>4. ASSUME t = 0, HMergeJoined PROVE SectionInv'
  <2> DEFINE c == Advance(Restored(ctx[0]))
  <2>1. run[0] = "joining" /\ ~ctx[0].inAtomic /\ UNCHANGED barrier
    BY <1>4 DEF HMergeJoined, SectionInv, Flags
  <2>2. c \in Context /\ ~c.inAtomic
    <3>1. M!WriteBack(Region, data, ctx[0].cmem) \in [M!Addr -> Val]
      BY <1>1, <1>2, <1>4, WriteBackType DEF SharedOK, Context
    <3>2. Restored(ctx[0]) \in Context /\ ~Restored(ctx[0]).inAtomic
      BY <1>1, <1>2, <1>4, <2>1, <3>1 DEF Restored, Context, ForkOK
    <3> QED BY <3>2 DEF Advance, Context
  <2>3. /\ OthersStay(0) /\ run'[0] \in {"exec", "exited", "failed"}
        /\ ~ctx'[0].inAtomic
    BY <1>1, <1>2, <1>4, <2>1, <2>2, RetireFrame, FaultFrame DEF HMergeJoined
  <2>4. Alone'
    <3>1. \A w \in Workers : Parked(w)'
      BY <1>4, <2>3 DEF HMergeJoined, OthersStay, Workers, Parked
    <3> QED BY <2>3, <3>1 DEF Alone
  <2>5. Quiet(0)
    BY <2>1, <2>3 DEF Quiet
  <2> QED BY <1>1, <1>4, <2>4, <2>5, QuietKeeps
<1> QED BY <1>3, <1>4 DEF Merge

\* HATMS: only the barrier elects, and only when everybody else is in it.
LEMMA HAtmSSection == ASSUME TypeOK, SectionInv, NEW t \in Tids, HAtmS(t) PROVE SectionInv'
<1>1. ControlOK /\ ForkOK /\ BarrierOK
  BY TypeParts
<1>2. ctx[t] \in Context /\ (ctx[t].inAtomic => ctx[t].forked)
  BY <1>1 DEF ControlOK, SectionInv, Flags
<1>3. ASSUME HAtmSAlone(t) PROVE SectionInv'
  <2>1. run[t] = "exec" /\ UNCHANGED <<fork, barrier>>
    BY <1>3 DEF HAtmSAlone, Executes, At
  <2>2. CASE ~ctx[t].forked
    <3>1. Fault(t, ctx[t])
      BY <1>3, <2>2 DEF HAtmSAlone
    <3> QED BY <1>2, <2>1, <3>1, EndKeeps
  <2>3. CASE ctx[t].forked
    <3> DEFINE c == LeadsAlone(ctx[t])
    <3>1. c \in Context /\ c.forked
      BY <1>2, <2>3 DEF LeadsAlone, Context
    <3>2. N = 1 /\ Retire(t, Advance(c))
      BY <1>3, <2>3 DEF HAtmSAlone
    <3> QED BY <2>1, <3>1, <3>2, AdvanceType, EndKeeps
  <2> QED BY <2>2, <2>3
<1>4. ASSUME NEW leader \in BOOLEAN, Elected(t, leader), ctx[t].forked
      PROVE  /\ OthersStay(t) /\ run'[t] \in {"exec", "exited"}
             /\ ctx'[t].inAtomic = leader /\ ctx'[t].forked
  <2> DEFINE c == [ctx[t] EXCEPT !.inAtomic = leader, !.skip = ~leader]
  <2>1. c \in Context /\ c.inAtomic = leader /\ c.forked
    BY <1>2, <1>4 DEF Context
  <2>2. Retire(t, Advance(c))
    BY <1>4 DEF Elected
  <2> HIDE DEF c
  <2>3. Advance(c) \in Context /\ Advance(c).inAtomic = leader /\ Advance(c).forked
    BY <2>1, AdvanceType
  <2> QED BY <1>1, <2>2, <2>3, RetireFrame
<1>5. ASSUME OthersStay(t), ctx[t].forked, ctx'[t].forked, ~Parked(t), run[t] # "spawning",
             run'[t] # "spawning", UNCHANGED fork
      PROVE  Alone'
  <2>1. CASE t # 0
    BY <1>5, <2>1, WorkerKeepsAlone DEF Workers, fork, SectionInv
  <2>2. CASE t = 0
    BY <1>5, <2>2, MainKeepsAlone DEF SectionInv
  <2> QED BY <2>1, <2>2
<1>6. ASSUME HAtmSArrive(t) PROVE SectionInv'
  <2>1. run[t] = "exec" /\ ctx[t].forked /\ N > 1 /\ UNCHANGED fork
    BY <1>6 DEF HAtmSArrive, Executes, At
  <2>2. CASE R!Enter(t) /\ Goto(t, "hatms", ctx[t])
    <3>1. OthersStay(t) /\ run'[t] = "hatms" /\ ctx'[t] = ctx[t]
      BY <1>1, <1>2, <2>2, GotoFrame
    <3>2. Alone'
      BY <1>5, <2>1, <3>1 DEF Parked, Ended
    <3> QED BY <1>1, <1>2, <2>1, <2>2, <3>1, <3>2, EnterKeeps
  <2>3. CASE R!Pass(t) /\ Elected(t, verdict'[t])
    <3>1. verdict'[t] = FALSE
      <4>1. Tids # {t}
        BY <2>1, NAssumption DEF Tids
      <4> QED BY <1>1, <2>3, <4>1 DEF R!Pass, BarrierOK
    <3>2. /\ OthersStay(t) /\ run'[t] \in {"exec", "exited"}
          /\ ~ctx'[t].inAtomic /\ ctx'[t].forked
      BY <1>4, <2>1, <2>3, <3>1
    <3>3. Alone'
      BY <1>5, <2>1, <3>2 DEF Parked, Ended
    <3> QED BY <1>1, <2>1, <2>3, <3>2, <3>3, PassKeeps
  <2> QED BY <1>6, <2>2, <2>3 DEF HAtmSArrive
<1>7. ASSUME HAtmSReturn(t) PROVE SectionInv'
  <2>1. run[t] = "hatms" /\ ctx[t].forked /\ R!Leave(t) /\ UNCHANGED fork
    BY <1>7 DEF HAtmSReturn, SectionInv, Flags
  <2>2. verdict'[t] \in BOOLEAN /\ verdict'[t] = (t \in first)
    BY <1>1, <2>1 DEF R!Leave, BarrierOK
  <2>3. /\ OthersStay(t) /\ run'[t] \in {"exec", "exited"}
        /\ ctx'[t].inAtomic = verdict'[t] /\ ctx'[t].forked
    BY <1>4, <1>7, <2>1, <2>2 DEF HAtmSReturn
  <2>4. Alone'
    BY <1>5, <2>1, <2>3 DEF Parked, Ended
  <2> QED BY <1>1, <2>1, <2>2, <2>3, <2>4, LeaveKeeps
<1> QED BY <1>3, <1>6, <1>7 DEF HAtmS

\* HATME: a section is closed before its second barrier.
LEMMA HAtmESection == ASSUME TypeOK, SectionInv, NEW t \in Tids, HAtmE(t) PROVE SectionInv'
<1>1. ControlOK /\ ForkOK /\ BarrierOK
  BY TypeParts
<1>2. ctx[t] \in Context /\ (ctx[t].inAtomic => ctx[t].forked)
  BY <1>1 DEF ControlOK, SectionInv, Flags
<1> DEFINE closed == [ctx[t] EXCEPT !.inAtomic = FALSE, !.skip = FALSE]
           c == [ctx[t] EXCEPT !.skip = FALSE]
<1>3. /\ closed \in Context /\ ~closed.inAtomic /\ closed.forked = ctx[t].forked
      /\ c \in Context /\ c.inAtomic = ctx[t].inAtomic /\ c.forked = ctx[t].forked
  BY <1>2 DEF Context
<1>4. ASSUME OthersStay(t), ctx'[t].forked = ctx[t].forked,
             run[t] \in {"exec", "committed", "hatme"},
             run'[t] \in {"exec", "exited", "committed", "hatme"}, UNCHANGED fork
      PROVE  Alone'
  <2>1. CASE t # 0
    BY <1>4, <2>1, WorkerKeepsAlone DEF Workers, Parked, Ended, fork, SectionInv
  <2>2. CASE t = 0
    BY <1>4, <2>2, MainKeepsAlone DEF SectionInv
  <2> QED BY <2>1, <2>2
<1>5. ASSUME HAtmEAlone(t) PROVE SectionInv'
  <2>1. run[t] = "exec" /\ UNCHANGED <<fork, barrier>>
    BY <1>5 DEF HAtmEAlone, At
  <2>2. Retire(t, Advance(closed)) \/ (~ctx[t].inAtomic /\ Fault(t, c))
    BY <1>5 DEF HAtmEAlone
  <2>3. CASE Retire(t, Advance(closed))
    <3> HIDE DEF closed
    <3>1. /\ Advance(closed) \in Context /\ ~Advance(closed).inAtomic
          /\ Advance(closed).forked = ctx[t].forked
      BY <1>3, AdvanceType
    <3> QED BY <2>1, <2>3, <3>1, EndKeeps
  <2>4. CASE ~ctx[t].inAtomic /\ Fault(t, c)
    BY <1>3, <2>1, <2>4, EndKeeps
  <2> QED BY <2>2, <2>3, <2>4
<1>6. ASSUME HAtmECommit(t) PROVE SectionInv'
  <2>1. run[t] = "exec" /\ UNCHANGED fork /\ UNCHANGED barrier /\ Goto(t, "committed", closed)
    BY <1>6 DEF HAtmECommit, At
  <2>2. OthersStay(t) /\ run'[t] = "committed" /\ ctx'[t] = closed
    BY <1>1, <1>3, <2>1, GotoFrame
  <2>3. Alone'
    BY <1>3, <1>4, <2>1, <2>2
  <2>4. Quiet(t)
    BY <1>3, <2>1, <2>2 DEF Quiet
  <2> QED BY <1>1, <2>3, <2>4, QuietKeeps
<1>7. ASSUME HAtmEArrive(t) PROVE SectionInv'
  <2>1. run[t] \in {"exec", "committed"} /\ ~c.inAtomic /\ UNCHANGED fork /\ Close(t, c)
    BY <1>3, <1>7 DEF HAtmEArrive, At, SectionInv, Flags
  <2>2. CASE R!Enter(t) /\ Goto(t, "hatme", c)
    <3>1. OthersStay(t) /\ run'[t] = "hatme" /\ ctx'[t] = c
      BY <1>1, <1>3, <2>2, GotoFrame
    <3>2. Alone'
      BY <1>3, <1>4, <2>1, <3>1
    <3> QED BY <1>1, <2>1, <2>2, <3>1, <3>2, EnterKeeps
  <2>3. CASE R!Pass(t) /\ Retire(t, Advance(c))
    <3>1. /\ OthersStay(t) /\ run'[t] \in {"exec", "exited"}
          /\ ~ctx'[t].inAtomic /\ ctx'[t].forked = ctx[t].forked
      <4> HIDE DEF c
      <4>1. /\ Advance(c) \in Context /\ ~Advance(c).inAtomic
            /\ Advance(c).forked = ctx[t].forked
        BY <1>3, <2>1, AdvanceType
      <4> QED BY <1>1, <2>3, <4>1, RetireFrame
    <3>2. Alone'
      BY <1>4, <2>1, <3>1
    <3> QED BY <1>1, <2>1, <2>3, <3>1, <3>2, PassKeeps
  <2> QED BY <2>1, <2>2, <2>3 DEF Close
<1>8. ASSUME HAtmEReturn(t) PROVE SectionInv'
  <2>1. /\ run[t] = "hatme" /\ ~ctx[t].inAtomic /\ R!Leave(t) /\ UNCHANGED fork
        /\ Retire(t, Advance(ctx[t]))
    BY <1>8 DEF HAtmEReturn, SectionInv, Flags
  <2>2. /\ OthersStay(t) /\ run'[t] \in {"exec", "exited"}
        /\ ~ctx'[t].inAtomic /\ ctx'[t].forked = ctx[t].forked
    BY <1>1, <1>2, <2>1, AdvanceType, RetireFrame
  <2>3. Alone'
    BY <1>4, <2>1, <2>2
  <2> QED BY <1>1, <2>1, <2>2, <2>3, LeaveKeeps
<1> QED BY <1>5, <1>6, <1>7, <1>8 DEF HAtmE

-----------------------------------------------------------------------------
\* The section invariant holds of every behaviour.
LEMMA SectionInvariant == Spec => []SectionInv
<1>1. Init => SectionInv
  <2> SUFFICES ASSUME Init PROVE SectionInv
    OBVIOUS
  <2>1. /\ \A t \in Tids : run[t] = IF t = 0 THEN "exec" ELSE "idle"
        /\ \A t \in Tids : ~ctx[t].inAtomic
        /\ \A t \in Tids : round[t] = 0
        /\ inside = {} /\ first = {}
    BY DEF Init, R!Init, NewContext
  <2>2. 0 \in Tids
    BY NAssumption DEF Tids
  <2>3. InsideIsWaiting /\ Lockstep /\ OneFirst /\ LastHasPassed /\ Flags /\ OneHolder
    BY <2>1 DEF InsideIsWaiting, Waits, Lockstep, OneFirst, LastHasPassed, Flags, OneHolder,
                Holds, InSection
  <2>4. Alone
    BY <2>1, <2>2 DEF Alone, Parked, Workers
  <2> QED BY <2>3, <2>4 DEF SectionInv
<1>2. TypeOK /\ SectionInv /\ [Next]_vars => SectionInv'
  <2> SUFFICES ASSUME TypeOK, SectionInv, [Next]_vars PROVE SectionInv'
    OBVIOUS
  <2>1. ASSUME NEW t \in Tids, Step(t) PROVE SectionInv'
    BY <2>1, LocalSection, StoreSharedSection, HForkSection, HAtmSSection, HAtmESection,
       MergeSection DEF Step
  <2>2. CASE UNCHANGED vars
    BY <2>2 DEF vars, fork, barrier, SectionInv, InsideIsWaiting, Waits, Lockstep, OneFirst,
       LastHasPassed, R!HasEntered, Flags, Alone, Parked, OneHolder, Holds, InSection
  <2> QED BY <2>1, <2>2 DEF Next, Done
<1> QED BY <1>1, <1>2, SpmdTypeCorrect, PTL DEF Spec

\* At most one thread at a time executes between HATMS and HATME: for every
\* program and any number of threads, also when threads miss barriers, fail, are
\* stopped by the cycle limit, or enter and leave sections by jumps.
THEOREM AtomicSectionsExclude == Spec => []ExclusiveSection
<1>1. SectionInv => ExclusiveSection
  BY DEF SectionInv, OneHolder, Holds, ExclusiveSection
<1> QED BY <1>1, SectionInvariant, PTL

-----------------------------------------------------------------------------
(***************************************************************************)
(* A worker's failure reaches HMERGE.  Past HMERGE thread 0 may also wait  *)
(* in the barrier it still holds, so the invariant covers those places.    *)
(***************************************************************************)
Running == {"exec", "exited", "hatms", "committed", "hatme"}
MergedInv ==
    ctx[0].merged /\ run[0] \in Running => \A w \in Workers : run[w] \in {"exited", "idle"}

\* A step of a worker: it is running, and only its own state changes.
LEMMA WorkerFrame ==
    ASSUME ControlOK, NEW t \in Workers, Step(t)
    PROVE  ~Parked(t) /\ OthersStay(t)
<1>1. t \in Tids /\ t # 0
  BY DEF Workers
<1>2. ASSUME NEW c, NEW place, Retire(t, c) \/ Fault(t, c) \/ Goto(t, place, c)
      PROVE  OthersStay(t)
  BY <1>1, <1>2 DEF Retire, Fault, Goto, OthersStay, ControlOK
<1>3. CASE Local(t) \/ StoreShared(t)
  BY <1>1, <1>2, <1>3 DEF Local, StoreShared, Skip, Skips, Load, Store, Inc, Jump, JumpTaken,
     JumpNotTaken, Halt, IDivZero, FDivZero, QPrep, QObserve, Executes, At, Parked, Ended
<1>4. CASE HFork(t) \/ Merge(t)
  BY <1>1, <1>2, <1>4 DEF HFork, HForkRefused, HForkSingle, Merge, HMerge, Executes, At,
     Parked, Ended
<1>5. CASE HAtmS(t)
  BY <1>1, <1>2, <1>5 DEF HAtmS, HAtmSAlone, HAtmSArrive, HAtmSReturn, Elected, Executes, At,
     Parked, Ended
<1>6. CASE HAtmE(t)
  BY <1>1, <1>2, <1>6 DEF HAtmE, HAtmEAlone, HAtmECommit, HAtmEArrive, HAtmEReturn, Close,
     At, Parked, Ended
<1> QED BY <1>3, <1>4, <1>5, <1>6 DEF Step

\* A step of thread 0 that neither spawns nor joins leaves its region flags as they
\* were; it can end in Running only if it began there.
SameRegion(c) ==
    c.merged = ctx[0].merged /\ c.forked = ctx[0].forked /\ c.sharing = ctx[0].sharing
LEMMA MainFrame ==
    ASSUME TypeOK, 0 \in Tids, N > 1,
           Local(0) \/ StoreShared(0) \/ HForkRefused(0) \/ HAtmS(0) \/ HAtmE(0)
    PROVE  /\ OthersStay(0) /\ run[0] \in Running
           /\ SameRegion(ctx'[0]) /\ run'[0] # "joining"
<1>1. ControlOK /\ SharedOK /\ BarrierOK
  BY TypeParts
<1>2. ctx[0] \in Context
  BY <1>1 DEF ControlOK
<1>3. ASSUME NEW c \in Context, SameRegion(c), NEW place, place # "joining",
             \/ Retire(0, c) \/ Retire(0, Advance(c)) \/ Fault(0, c) \/ Goto(0, place, c)
      PROVE  OthersStay(0) /\ SameRegion(ctx'[0]) /\ run'[0] # "joining"
  BY <1>1, <1>3, AdvanceType, RetireFrame, FaultFrame, GotoFrame DEF SameRegion
<1>4. CASE Local(0)
  <2>1. PICK c \in Context : Ends(0, c)
    BY <1>1, <1>4, LocalContext
  <2> QED BY <1>3, <2>1 DEF Ends, Running, SameRegion
<1>5. CASE StoreShared(0) \/ HForkRefused(0)
  BY <1>2, <1>3, <1>5 DEF StoreShared, HForkRefused, Executes, At, Running,
     SameRegion
<1>6. CASE HAtmS(0)
  <2>1. run[0] \in Running
    BY <1>6 DEF HAtmS, HAtmSAlone, HAtmSArrive, HAtmSReturn, Executes, At, Running
  <2>2. ASSUME NEW leader \in BOOLEAN, Elected(0, leader)
        PROVE  OthersStay(0) /\ SameRegion(ctx'[0]) /\ run'[0] # "joining"
    <3> DEFINE c == [ctx[0] EXCEPT !.inAtomic = leader, !.skip = ~leader]
    <3>1. c \in Context /\ SameRegion(c)
      BY <1>2 DEF Context, SameRegion
    <3> QED BY <1>3, <2>2, <3>1 DEF Elected
  <2>3. Fault(0, ctx[0]) \/ Goto(0, "hatms", ctx[0]) \/ \E leader \in BOOLEAN : Elected(0, leader)
    <3>1. HAtmSArrive(0) \/ HAtmSReturn(0) => verdict'[0] \in BOOLEAN
      BY <1>1, BarrierStepType DEF HAtmSArrive, HAtmSReturn, BarrierOK
    <3> QED BY <1>6, <3>1 DEF HAtmS, HAtmSAlone, HAtmSArrive, HAtmSReturn
  <2> QED BY <1>2, <1>3, <2>1, <2>2, <2>3 DEF SameRegion
<1>7. CASE HAtmE(0)
  <2>1. run[0] \in Running
    BY <1>7 DEF HAtmE, HAtmEAlone, HAtmECommit, HAtmEArrive, HAtmEReturn, At, Running
  <2> DEFINE closed == [ctx[0] EXCEPT !.inAtomic = FALSE, !.skip = FALSE]
             c == [ctx[0] EXCEPT !.skip = FALSE]
  <2>2. closed \in Context /\ SameRegion(closed)
    BY <1>2 DEF Context, SameRegion
  <2>3. c \in Context /\ SameRegion(c)
    BY <1>2 DEF Context, SameRegion
  <2>4. CASE Retire(0, Advance(closed)) \/ Goto(0, "committed", closed)
    BY <1>3, <2>1, <2>2, <2>4
  <2>5. CASE Fault(0, c) \/ Goto(0, "hatme", c) \/ Retire(0, Advance(c))
    BY <1>3, <2>1, <2>3, <2>5
  <2>6. CASE Retire(0, Advance(ctx[0]))
    BY <1>2, <1>3, <2>1, <2>6 DEF SameRegion
  <2> QED BY <1>7, <2>4, <2>5, <2>6
          DEF HAtmE, HAtmEAlone, HAtmECommit, HAtmEArrive, HAtmEReturn, Close
<1> QED BY <1>4, <1>5, <1>6, <1>7

\* HMERGE never succeeds over a failed worker: for every program and any number
\* of threads, once thread 0 is past it all workers have ended without an error.
THEOREM WorkerErrorsSurface == Spec => []FaultsSurface
<1>1. 0 \in Tids /\ (\A w \in Workers : w \in Tids \ {0}) /\ Tids = Workers \cup {0}
  BY NAssumption DEF Tids, Workers
<1>2. Init => MergedInv
  BY <1>1 DEF Init, MergedInv, NewContext
<1>3. TypeOK /\ MergedInv /\ [Next]_vars => MergedInv'
  <2> SUFFICES ASSUME TypeOK, MergedInv, [Next]_vars PROVE MergedInv'
    OBVIOUS
  <2>1. ControlOK /\ ctx[0] \in Context
    BY <1>1, TypeParts DEF ControlOK
  <2>2. CASE UNCHANGED vars
    BY <2>2 DEF vars, MergedInv
  <2>3. ASSUME NEW t \in Workers, Step(t) PROVE MergedInv'
    <3>1. ~Parked(t) /\ OthersStay(t)
      BY <2>1, <2>3, WorkerFrame
    <3>2. ctx'[0] = ctx[0] /\ run'[0] = run[0]
      BY <1>1, <3>1 DEF OthersStay, Workers
    <3>3. \A w \in Workers \ {t} : run'[w] = run[w]
      BY <3>1 DEF OthersStay, Workers
    <3>4. ~(ctx[0].merged /\ run[0] \in Running)
      BY <2>3, <3>1 DEF MergedInv, Parked, Ended
    <3> QED BY <3>2, <3>4 DEF MergedInv
  <2>4. ASSUME Step(0), N > 1 PROVE MergedInv'
    <3>1. CASE Local(0) \/ StoreShared(0) \/ HForkRefused(0) \/ HAtmS(0) \/ HAtmE(0)
      <4>1. /\ OthersStay(0) /\ run[0] \in Running
            /\ ctx'[0].merged = ctx[0].merged
        BY <1>1, <2>4, <3>1, MainFrame DEF SameRegion
      <4> QED BY <1>1, <4>1 DEF MergedInv, OthersStay
    <3>2. CASE HForkSingle(0)
      BY <2>4, <3>2 DEF HForkSingle
    <3>3. CASE HForkSetup \/ HForkSpawnFails
      <4>1. run'[0] \in {"spawning", "failed"}
        BY <1>1, <2>1, <3>3 DEF HForkSetup, HForkSpawnFails, Goto, Fault, ControlOK
      <4> QED BY <4>1 DEF MergedInv, Running
    <3>4. ASSUME NEW w \in Workers, HForkSpawn(w) PROVE MergedInv'
      <4>1. run'[0] = "spawning"
        BY <1>1, <2>1, <3>4 DEF HForkSpawn, ControlOK
      <4> QED BY <4>1 DEF MergedInv, Running
    <3>5. CASE HForkDone
      <4> DEFINE c == [ctx[0] EXCEPT !.forked = TRUE, !.merged = FALSE,
                                     !.skip = FALSE, !.sharing = TRUE]
      <4>1. c \in Context /\ ~c.merged
        BY <2>1 DEF Context
      <4>2. Retire(0, Advance(c))
        BY <3>5 DEF HForkDone
      <4> HIDE DEF c
      <4>3. Advance(c) \in Context /\ ~Advance(c).merged
        BY <4>1, AdvanceType
      <4>4. ~ctx'[0].merged
        BY <1>1, <2>1, <4>2, <4>3, RetireFrame
      <4> QED BY <4>4 DEF MergedInv
    <3>6. CASE HMerge(0)
      <4>1. run'[0] \in {"failed", "joining"}
        BY <1>1, <2>1, <2>4, <3>6 DEF HMerge, Fault, Goto, ControlOK
      <4> QED BY <4>1 DEF MergedInv, Running
    <3>7. CASE HMergeJoined
      <4>1. CASE JoinError
        <5>1. run'[0] = "failed"
          BY <1>1, <2>1, <3>7, <4>1 DEF HMergeJoined, Fault, ControlOK
        <5> QED BY <5>1 DEF MergedInv, Running
      <4>2. CASE ~JoinError
        <5>1. \A w \in Workers : run[w] = "exited"
          BY <3>7, <4>2 DEF HMergeJoined, JoinError, Ended
        <5>2. \A w \in Workers : run'[w] = run[w]
          BY <1>1, <2>1, <3>7, <4>2 DEF HMergeJoined, Retire, ControlOK
        <5> QED BY <5>1, <5>2 DEF MergedInv
      <4> QED BY <4>1, <4>2
    <3> QED BY <2>4, <3>1, <3>2, <3>3, <3>4, <3>5, <3>6, <3>7 DEF Step, HFork, Merge
  <2>5. CASE ~(N > 1)
    <3>1. Workers = {}
      BY <2>5, NAssumption DEF Workers, Tids
    <3> QED BY <3>1 DEF MergedInv
  <2> QED BY <1>1, <2>2, <2>3, <2>4, <2>5 DEF Next, Done
<1>4. MergedInv => FaultsSurface
  BY DEF MergedInv, FaultsSurface, Running
<1> QED BY <1>2, <1>3, <1>4, SpmdTypeCorrect, PTL DEF Spec

-----------------------------------------------------------------------------
(***************************************************************************)
(* The memory that readers see is frozen.  In a program with well-formed   *)
(* sections the text says where a thread is: its pc is in a section iff it *)
(* has passed an odd number of barriers.  Threads that execute have passed *)
(* equally many (Lockstep), so while one is in a section none is outside.  *)
(***************************************************************************)
Here(t) == Within(prog, ctx[t].pc)
Faces(t, op) == ctx[t].pc < Len(prog) /\ prog[ctx[t].pc + 1].op = op
Odd(n) == n % 2 = 1

\* What the flags and the rounds of t say about the place of its pc.
Placed(t) ==
    /\ run[t] = "exec" => (ctx[t].inAtomic \/ ctx[t].skip <=> Here(t))
    /\ run[t] = "hatms" => Faces(t, "HATMS")
    /\ run[t] \in {"committed", "hatme"} => Faces(t, "HATME") /\ ~ctx[t].skip
    /\ run[t] = "spawning" => Faces(t, "HFORK")
    /\ run[t] = "joining" => Faces(t, "HMERGE") /\ ~ctx[t].skip
    /\ ~Parked(t) => (Odd(round[t]) <=> Here(t))

PlaceInv ==
    /\ Sectioned(prog)
    /\ \A t \in Tids : Placed(t)
    /\ run[0] = "spawning" => \A w \in Workers : w >= nextTid => round[w] = 0

LEMMA OddFlips ==
    /\ ~Odd(0)
    /\ \A n \in Nat : Odd(n + 1) <=> ~Odd(n)
BY DEF Odd

\* One instruction further in the text.
LEMMA WithinNext ==
    ASSUME NEW p \in Seq([op : STRING, arg : Nat]), NEW pc \in Nat, pc < Len(p)
    PROVE  Within(p, pc + 1) <=> p[pc + 1].op = "HATMS" \/ (p[pc + 1].op # "HATME" /\ Within(p, pc))
<1>1. pc + 1 \in DOMAIN p /\ DOMAIN p = 1 .. Len(p) /\ Len(p) \in Nat
  OBVIOUS
<1>2. CASE p[pc + 1].op = "HATMS"
  BY <1>1, <1>2 DEF Within
<1>3. CASE p[pc + 1].op = "HATME"
  <2>1. ASSUME NEW j \in DOMAIN p, j <= pc + 1, p[j].op = "HATMS",
               \A k \in DOMAIN p : j < k /\ k <= pc + 1 => p[k].op # "HATME"
        PROVE  FALSE
    <3>1. j # pc + 1
      BY <1>3, <2>1
    <3> QED BY <1>1, <1>3, <2>1, <3>1
  <2> QED BY <1>3, <2>1 DEF Within
<1>4. CASE p[pc + 1].op \notin {"HATMS", "HATME"}
  <2>1. ASSUME Within(p, pc) PROVE Within(p, pc + 1)
    <3>1. PICK j \in DOMAIN p : /\ j <= pc /\ p[j].op = "HATMS"
                                /\ \A k \in DOMAIN p : j < k /\ k <= pc => p[k].op # "HATME"
      BY <2>1 DEF Within
    <3>2. j <= pc + 1
      BY <1>1, <3>1
    <3>3. ASSUME NEW k \in DOMAIN p, j < k, k <= pc + 1 PROVE p[k].op # "HATME"
      <4>1. k <= pc \/ k = pc + 1
        BY <1>1, <3>3
      <4> QED BY <1>4, <3>1, <3>3, <4>1
    <3> QED BY <3>1, <3>2, <3>3 DEF Within
  <2>2. ASSUME Within(p, pc + 1) PROVE Within(p, pc)
    <3>1. PICK j \in DOMAIN p : /\ j <= pc + 1 /\ p[j].op = "HATMS"
                                /\ \A k \in DOMAIN p : j < k /\ k <= pc + 1 => p[k].op # "HATME"
      BY <2>2 DEF Within
    <3>2. j <= pc
      BY <1>1, <1>4, <3>1
    <3>3. \A k \in DOMAIN p : j < k /\ k <= pc => p[k].op # "HATME"
      BY <1>1, <3>1
    <3> QED BY <3>1, <3>2, <3>3 DEF Within
  <2> QED BY <1>4, <2>1, <2>2
<1> QED BY <1>2, <1>3, <1>4

\* Nothing opens or closes behind the text.
LEMMA WithinEnd ==
    ASSUME NEW p \in Seq([op : STRING, arg : Nat]), NEW pc \in Nat, ~(pc < Len(p))
    PROVE  Within(p, pc + 1) <=> Within(p, pc)
<1>1. \A k \in DOMAIN p : k <= pc /\ k <= pc + 1
  OBVIOUS
<1> QED BY <1>1 DEF Within

\* What Sectioned says about the instruction that t faces, and of the next one.
LEMMA Discipline ==
    ASSUME ControlOK, Sectioned(prog), NEW t \in Tids, NEW op, Faces(t, op)
    PROVE  /\ op \in {"HATMS", "HFORK", "HMERGE"} => ~Here(t)
           /\ op = "HATME" => Here(t)
           /\ op \in {"JMP", "JMPAF", "JTID"} => (Within(prog, Arg(t)) <=> Here(t))
           /\ Within(prog, ctx[t].pc + 1) <=> op = "HATMS" \/ (op # "HATME" /\ Here(t))
<1>1. prog \in Seq([op : STRING, arg : Nat]) /\ ctx[t].pc \in Nat
  BY ProgramsAssumption DEF ControlOK, Context
<1>2. ctx[t].pc < Len(prog) /\ prog[ctx[t].pc + 1].op = op
  BY DEF Faces
<1>3. ctx[t].pc + 1 \in DOMAIN prog /\ (ctx[t].pc + 1) - 1 = ctx[t].pc
  BY <1>1, <1>2
<1> QED BY <1>1, <1>2, <1>3, WithinNext DEF Sectioned, Here, Arg

LEMMA RetirePlace ==
    ASSUME ControlOK, NEW t \in Tids, NEW c \in Context, Retire(t, c)
    PROVE  /\ prog' = prog /\ ctx'[t].pc = c.pc /\ ctx'[t].skip = c.skip
           /\ c.halt => run'[t] = "exited"
<1> DEFINE e == Limited(t, Dispatched(t, c))
<1>1. e.pc = c.pc /\ e.skip = c.skip /\ (c.halt => e.halt)
  BY DEF Limited, Dispatched, Context
<1>2. ctx'[t] = e /\ (e.halt => run'[t] = "exited") /\ prog' = prog
  BY DEF Retire, ControlOK
<1> QED BY <1>1, <1>2

\* t goes on outside the barrier with context c.
LEMMA GoesOnPlaced ==
    ASSUME ControlOK, NEW t \in Tids, NEW c \in Context, Retire(t, c),
           ~c.halt => /\ c.inAtomic \/ c.skip <=> Within(prog, c.pc)
                      /\ Odd(round'[t]) <=> Within(prog, c.pc)
    PROVE  Placed(t)' /\ OthersStay(t) /\ prog' = prog /\ run'[t] \in {"exec", "exited"}
<1>1. /\ OthersStay(t) /\ run'[t] \in {"exec", "exited"} /\ ctx'[t].inAtomic = c.inAtomic
      /\ prog' = prog /\ ctx'[t].pc = c.pc /\ ctx'[t].skip = c.skip
      /\ c.halt => run'[t] = "exited"
  BY RetireFrame, RetirePlace
<1>2. CASE run'[t] = "exited"
  BY <1>1, <1>2 DEF Placed, Parked, Ended
<1>3. CASE run'[t] = "exec"
  BY <1>1, <1>3 DEF Placed, Here
<1> QED BY <1>1, <1>2, <1>3

LEMMA FailsPlaced ==
    ASSUME ControlOK, NEW t \in Tids, NEW c \in Context, Fault(t, c)
    PROVE  Placed(t)' /\ OthersStay(t) /\ prog' = prog /\ run'[t] = "failed"
<1>1. OthersStay(t) /\ run'[t] = "failed" /\ prog' = prog
  BY FaultFrame DEF Fault
<1> QED BY <1>1 DEF Placed, Parked, Ended

\* A step of t keeps the invariant if it keeps t's part of it.
LEMMA PlaceKeeps ==
    ASSUME SectionInv, PlaceInv, NEW t \in Tids, OthersStay(t), prog' = prog,
           \A u \in Tids \ {t} : round'[u] = round[u],
           Placed(t)',
           run'[0] # "spawning" \/ (t # 0 /\ ~Parked(t) /\ nextTid' = nextTid)
    PROVE  PlaceInv'
<1>1. ASSUME NEW u \in Tids \ {t} PROVE Placed(u)'
  BY <1>1 DEF PlaceInv, Placed, Parked, Here, Faces, OthersStay
<1>2. Sectioned(prog)'
  BY DEF PlaceInv
<1>3. ASSUME run'[0] = "spawning", NEW w \in Workers, w >= nextTid' PROVE round'[w] = 0
  <2>1. 0 \in Tids \ {t} /\ t # 0 /\ w \in Tids
    BY <1>3, NAssumption DEF Tids, Workers
  <2>2. run[0] = "spawning" /\ w >= nextTid
    BY <1>3, <2>1 DEF OthersStay
  <2>3. w # t /\ round[w] = 0
    BY <1>3, <2>2 DEF SectionInv, Alone, PlaceInv
  <2> QED BY <2>1, <2>3
<1> QED BY <1>1, <1>2, <1>3 DEF PlaceInv

\* An instruction of t that ends away from the barrier, in the middle of a section
\* or of none.
LEMMA EndPlaces ==
    ASSUME TypeOK, SectionInv, PlaceInv, NEW t \in Tids, NEW c \in Context,
           run[t] = "exec", UNCHANGED <<fork, barrier>>,
           \/ Fault(t, c)
           \/ Retire(t, c) /\ (c.halt \/ ((c.inAtomic \/ c.skip <=> Here(t))
                                          /\ (Within(prog, c.pc) <=> Here(t))))
    PROVE  PlaceInv'
<1>1. ControlOK /\ round' = round /\ nextTid' = nextTid
  BY TypeParts DEF fork, barrier
<1>2. ~Parked(t) /\ (Odd(round[t]) <=> Here(t))
  BY DEF Parked, Ended, PlaceInv, Placed
<1>3. Placed(t)' /\ OthersStay(t) /\ prog' = prog /\ run'[t] \in {"exec", "exited", "failed"}
  <2>1. CASE Fault(t, c)
    BY <1>1, <2>1, FailsPlaced
  <2>2. CASE Retire(t, c) /\ (c.halt \/ ((c.inAtomic \/ c.skip <=> Here(t))
                                         /\ (Within(prog, c.pc) <=> Here(t))))
    BY <1>1, <1>2, <2>2, GoesOnPlaced
  <2> QED BY <2>1, <2>2
<1> QED BY <1>1, <1>2, <1>3, PlaceKeeps

LEMMA LocalPlace ==
    ASSUME TypeOK, SectionInv, PlaceInv, NEW t \in Tids, Local(t) PROVE PlaceInv'
<1>1. ControlOK /\ SharedOK /\ UNCHANGED <<fork, barrier>> /\ Sectioned(prog)
  BY TypeParts DEF Local, PlaceInv
<1>2. PICK c \in Context : Ends(t, c)
  BY <1>1, LocalContext
<1>3. /\ run[t] = "exec" /\ c.inAtomic = ctx[t].inAtomic /\ c.skip = ctx[t].skip
      /\ ctx[t].inAtomic \/ ctx[t].skip <=> Here(t)
  BY <1>2 DEF Ends, PlaceInv, Placed
<1>4. CASE Fault(t, c)
  BY <1>1, <1>3, <1>4, EndPlaces
<1>5. CASE Retire(t, c) /\ c.halt
  BY <1>1, <1>3, <1>5, EndPlaces
<1>6. CASE Retire(t, c) /\ c.pc = ctx[t].pc + 1 /\ Passing(t)
  <2>1. CASE ctx[t].pc < Len(prog)
    <3> DEFINE op == prog[ctx[t].pc + 1].op
    <3>1. Faces(t, op) /\ op # "HATME" /\ (op = "HATMS" => ctx[t].skip)
      BY <1>3, <1>6, <2>1 DEF At, Faces, Passing
    <3> HIDE DEF op
    <3>2. op # "HATMS"
      BY <1>1, <1>3, <3>1, Discipline
    <3>3. Within(prog, c.pc) <=> Here(t)
      BY <1>1, <1>6, <3>1, <3>2, Discipline
    <3> QED BY <1>1, <1>3, <1>6, <3>3, EndPlaces
  <2>2. CASE ~(ctx[t].pc < Len(prog))
    <3>1. Within(prog, c.pc) <=> Here(t)
      BY <1>1, <1>6, <2>2, WithinEnd, ProgramsAssumption DEF Here, ControlOK, Context
    <3> QED BY <1>1, <1>3, <1>6, <3>1, EndPlaces
  <2> QED BY <2>1, <2>2
<1>7. ASSUME Retire(t, c), c.pc = Arg(t), NEW op \in {"JMP", "JMPAF", "JTID"}, At(t, op)
      PROVE  PlaceInv'
  <2>1. Faces(t, op)
    BY <1>7 DEF At, Faces
  <2>2. Within(prog, c.pc) <=> Here(t)
    BY <1>1, <1>7, <2>1, Discipline
  <2> QED BY <1>1, <1>3, <1>7, <2>2, EndPlaces
<1> QED BY <1>2, <1>4, <1>5, <1>6, <1>7 DEF Ends, Reached


LEMMA StoreSharedPlace ==
    ASSUME TypeOK, SectionInv, PlaceInv, NEW t \in Tids, StoreShared(t) PROVE PlaceInv'
<1>1. ControlOK /\ ctx[t] \in Context /\ Sectioned(prog)
  BY TypeParts DEF ControlOK, PlaceInv
<1>2. /\ run[t] = "exec" /\ Faces(t, "STORE") /\ UNCHANGED <<fork, barrier>>
      /\ Retire(t, Advance(ctx[t]))
  BY DEF StoreShared, Executes, At, Faces
<1>3. Within(prog, ctx[t].pc + 1) <=> Here(t)
  BY <1>1, <1>2, Discipline
<1>4. ctx[t].inAtomic \/ ctx[t].skip <=> Here(t)
  BY <1>2 DEF PlaceInv, Placed
<1> QED BY <1>1, <1>2, <1>3, <1>4, AdvanceType, EndPlaces

\* HFORK: every thread starts outside the sections, before the first barrier.
LEMMA HForkPlace ==
    ASSUME TypeOK, SectionInv, PlaceInv, N > 1, NEW t \in Tids, HFork(t) PROVE PlaceInv'
<1>1. ControlOK /\ ForkOK /\ BarrierOK /\ ctx[t] \in Context /\ Sectioned(prog)
  BY TypeParts DEF ControlOK, PlaceInv
<1>2. CASE HForkRefused(t)
  BY <1>1, <1>2, EndPlaces DEF HForkRefused, Executes, At, fork, barrier
<1>3. ASSUME t = 0, HForkSetup PROVE PlaceInv'
  <2> DEFINE emptied == [ctx[0] EXCEPT !.qregs = {}]
  <2>1. /\ run[0] = "exec" /\ Faces(0, "HFORK") /\ ~ctx[0].forked
        /\ emptied \in Context /\ emptied.pc = ctx[0].pc
    BY <1>1, <1>3 DEF HForkSetup, Executes, At, Faces, Context
  <2>2. CASE M!CreationPanics(Region)
    <3>1. Fault(0, emptied) /\ round' = round
      BY <1>3, <2>2 DEF HForkSetup, barrier
    <3>2. Placed(0)' /\ OthersStay(0) /\ prog' = prog /\ run'[0] = "failed"
      BY <1>1, <1>3, <2>1, <3>1, FailsPlaced
    <3> QED BY <1>3, <3>1, <3>2, PlaceKeeps
  <2>3. CASE ~M!CreationPanics(Region)
    <3>1. Goto(0, "spawning", emptied) /\ round' = [u \in Tids |-> 0]
      BY <1>3, <2>3 DEF HForkSetup
    <3>2. OthersStay(0) /\ run'[0] = "spawning" /\ ctx'[0] = emptied /\ prog' = prog
      BY <1>1, <1>3, <2>1, <3>1, GotoFrame DEF Goto
    <3>3. ~Here(0) /\ (\A u \in Tids : round'[u] = 0)
      BY <1>1, <1>3, <2>1, <3>1, Discipline
    <3>4. Placed(0)'
      BY <1>3, <2>1, <3>2, <3>3, OddFlips DEF Placed, Here, Faces
    <3>5. ASSUME NEW w \in Tids \ {0} PROVE Placed(w)'
      <4>1. Parked(w) /\ w \in Workers
        BY <2>1, <3>5 DEF SectionInv, Alone, Workers
      <4>2. Parked(w)'
        BY <3>2, <4>1 DEF Parked, OthersStay, Workers
      <4> QED BY <4>2 DEF Placed, Parked, Ended
    <3>6. \A w \in Workers : round'[w] = 0
      BY <3>3 DEF Workers
    <3> QED BY <3>2, <3>4, <3>5, <3>6 DEF PlaceInv
  <2> QED BY <2>2, <2>3
<1>4. ASSUME t = 0, NEW w \in Workers, HForkSpawn(w) PROVE PlaceInv'
  <2> DEFINE forked == [ctx[0] EXCEPT !.forked = TRUE, !.merged = FALSE,
                                      !.skip = FALSE, !.sharing = TRUE]
             clone == Advance(forked)
  <2>1. /\ run[0] = "spawning" /\ nextTid = w /\ nextTid' = nextTid + 1 /\ prog' = prog
        /\ round' = round
    BY <1>4 DEF HForkSpawn, barrier
  <2>2. w \in Tids /\ w # 0 /\ w \in Nat /\ Faces(0, "HFORK") /\ ~ctx[0].inAtomic
    BY <1>4, <2>1 DEF Workers, Tids, PlaceInv, Placed, SectionInv, Flags
  <2>3. ~Here(0) /\ ~Within(prog, ctx[0].pc + 1)
    BY <1>1, <1>4, <2>2, Discipline
  <2>4. /\ clone.pc = ctx[0].pc + 1 /\ ~clone.skip /\ ~clone.inAtomic
    <3>1. /\ forked \in Context /\ forked.pc = ctx[0].pc /\ ~forked.skip
          /\ forked.inAtomic = ctx[0].inAtomic
      BY <1>1, <1>4, ForkedType
    <3> HIDE DEF forked
    <3> QED BY <2>2, <3>1, AdvanceType
  <2>5. /\ OthersStay(w) /\ ctx'[w] = clone /\ run'[w] \in {"exec", "exited"}
    BY <1>1, <1>4, <2>2 DEF HForkSpawn, ControlOK, OthersStay
  <2> HIDE DEF clone
  <2>6. round[w] = 0
    BY <2>1, <2>2 DEF PlaceInv
  <2>7. Placed(w)'
    BY <2>1, <2>3, <2>4, <2>5, <2>6, OddFlips DEF Placed, Parked, Ended, Here
  <2>8. ASSUME NEW u \in Tids \ {w} PROVE Placed(u)'
    BY <2>1, <2>5, <2>8 DEF PlaceInv, Placed, Parked, Here, Faces, OthersStay
  <2>9. ASSUME NEW v \in Workers, v >= nextTid' PROVE round'[v] = 0
    <3>1. v >= nextTid
      BY <2>1, <2>2, <2>9 DEF Workers, Tids
    <3> QED BY <2>1, <3>1 DEF PlaceInv
  <2> QED BY <1>1, <2>1, <2>7, <2>8, <2>9 DEF PlaceInv
<1>5. ASSUME t = 0, HForkSpawnFails PROVE PlaceInv'
  <2>1. Fault(0, ctx[0]) /\ round' = round
    BY <1>5 DEF HForkSpawnFails, barrier
  <2>2. Placed(0)' /\ OthersStay(0) /\ prog' = prog /\ run'[0] = "failed"
    BY <1>1, <1>5, <2>1, FailsPlaced
  <2> QED BY <1>5, <2>1, <2>2, PlaceKeeps
<1>6. ASSUME t = 0, HForkDone PROVE PlaceInv'
  <2> DEFINE forked == [ctx[0] EXCEPT !.forked = TRUE, !.merged = FALSE,
                                      !.skip = FALSE, !.sharing = TRUE]
             c == Advance(forked)
  <2>1. run[0] = "spawning" /\ Retire(0, c) /\ round' = round
    BY <1>6 DEF HForkDone, barrier
  <2>2. Faces(0, "HFORK") /\ ~ctx[0].inAtomic /\ ~Parked(0)
    BY <1>6, <2>1 DEF PlaceInv, Placed, SectionInv, Flags, Parked, Ended
  <2>3. ~Here(0) /\ ~Within(prog, ctx[0].pc + 1) /\ ~Odd(round[0])
    BY <1>1, <1>6, <2>2, Discipline DEF PlaceInv, Placed
  <2>4. c \in Context /\ c.pc = ctx[0].pc + 1 /\ ~c.skip /\ ~c.inAtomic
    <3>1. /\ forked \in Context /\ forked.pc = ctx[0].pc /\ ~forked.skip
          /\ forked.inAtomic = ctx[0].inAtomic
      BY <1>1, <1>6, ForkedType
    <3> HIDE DEF forked
    <3> QED BY <2>2, <3>1, AdvanceType
  <2> HIDE DEF c
  <2>5. Placed(0)' /\ OthersStay(0) /\ prog' = prog /\ run'[0] \in {"exec", "exited"}
    BY <1>1, <1>6, <2>1, <2>3, <2>4, GoesOnPlaced
  <2> QED BY <1>6, <2>1, <2>5, PlaceKeeps
<1>7. ~HForkSingle(t)
  BY DEF HForkSingle
<1> QED BY <1>2, <1>3, <1>4, <1>5, <1>6, <1>7 DEF HFork

\* HMERGE: outside the sections, and it leaves no flag behind.
LEMMA MergePlace ==
    ASSUME TypeOK, SectionInv, PlaceInv, N > 1, NEW t \in Tids, Merge(t) PROVE PlaceInv'
<1>1. ControlOK /\ SharedOK /\ ForkOK /\ BarrierOK /\ ctx[t] \in Context /\ Sectioned(prog)
  BY TypeParts DEF ControlOK, PlaceInv
<1>2. ASSUME HMerge(t) PROVE PlaceInv'
  <2> DEFINE c == MergeFlags(ctx[t])
  <2>1. /\ run[t] = "exec" /\ Faces(t, "HMERGE") /\ UNCHANGED <<fork, barrier>>
    BY <1>2 DEF HMerge, Executes, At, Faces
  <2>2. ~Here(t) /\ ~Within(prog, ctx[t].pc + 1)
    BY <1>1, <2>1, Discipline
  <2>3. c \in Context /\ ~c.inAtomic /\ ~c.skip /\ c.pc = ctx[t].pc
    BY <1>1 DEF MergeFlags, Context
  <2>4. Fault(t, ctx[t]) \/ Fault(t, c) \/ Retire(t, Advance(c)) \/ (t = 0 /\ Goto(t, "joining", c))
    BY <1>2 DEF HMerge
  <2> HIDE DEF c
  <2>5. CASE Fault(t, ctx[t]) \/ Fault(t, c)
    BY <1>1, <2>1, <2>3, <2>5, EndPlaces
  <2>6. CASE Retire(t, Advance(c))
    <3>1. /\ Advance(c) \in Context /\ ~Advance(c).inAtomic /\ ~Advance(c).skip
          /\ Advance(c).pc = ctx[t].pc + 1
      BY <2>3, AdvanceType
    <3> QED BY <2>1, <2>2, <2>6, <3>1, EndPlaces
  <2>7. CASE t = 0 /\ Goto(t, "joining", c)
    <3>1. OthersStay(t) /\ run'[t] = "joining" /\ ctx'[t] = c /\ prog' = prog /\ round' = round
      BY <1>1, <2>1, <2>3, <2>7, GotoFrame DEF Goto, barrier
    <3>2. ~Odd(round[t])
      BY <2>1, <2>2 DEF PlaceInv, Placed, Parked, Ended
    <3>3. Placed(t)'
      BY <2>1, <2>2, <2>3, <3>1, <3>2 DEF Placed, Here, Faces
    <3> QED BY <2>7, <3>1, <3>3, PlaceKeeps
  <2> QED BY <2>4, <2>5, <2>6, <2>7
<1>3. ASSUME t = 0, HMergeJoined PROVE PlaceInv'
  <2> DEFINE c == Restored(ctx[0])
  <2>1. run[0] = "joining" /\ ~ctx[0].inAtomic /\ round' = round
    BY <1>3 DEF HMergeJoined, SectionInv, Flags, barrier
  <2>2. Faces(0, "HMERGE") /\ ~ctx[0].skip /\ (Odd(round[0]) <=> Here(0))
    BY <1>3, <2>1 DEF PlaceInv, Placed, Parked, Ended
  <2>3. ~Here(0) /\ ~Within(prog, ctx[0].pc + 1)
    BY <1>1, <1>3, <2>2, Discipline
  <2>4. CASE JoinError
    <3>1. Fault(0, ctx[0])
      BY <1>3, <2>4 DEF HMergeJoined
    <3>2. Placed(0)' /\ OthersStay(0) /\ prog' = prog /\ run'[0] = "failed"
      BY <1>1, <1>3, <3>1, FailsPlaced
    <3> QED BY <1>3, <2>1, <3>2, PlaceKeeps
  <2>5. CASE ~JoinError
    <3>1. Retire(0, Advance(c))
      BY <1>3, <2>5 DEF HMergeJoined
    <3>2. M!WriteBack(Region, data, ctx[0].cmem) \in [M!Addr -> Val]
      BY <1>1, <1>3, WriteBackType DEF SharedOK, Context
    <3>3. c \in Context /\ ~c.inAtomic /\ ~c.skip /\ c.pc = ctx[0].pc
      BY <1>1, <1>3, <2>1, <2>2, <3>2 DEF Restored, Context, ForkOK
    <3> HIDE DEF c
    <3>4. /\ Advance(c) \in Context /\ ~Advance(c).inAtomic /\ ~Advance(c).skip
          /\ Advance(c).pc = ctx[0].pc + 1
      BY <3>3, AdvanceType
    <3>5. Placed(0)' /\ OthersStay(0) /\ prog' = prog /\ run'[0] \in {"exec", "exited"}
      BY <1>1, <1>3, <2>1, <2>2, <2>3, <3>1, <3>4, GoesOnPlaced
    <3> QED BY <1>3, <2>1, <3>5, PlaceKeeps
  <2> QED BY <2>4, <2>5
<1> QED BY <1>2, <1>3 DEF Merge


\* A round that t enters, and one that it leaves.
LEMMA RoundMoves ==
    ASSUME BarrierOK, NEW t \in Tids
    PROVE  /\ R!Enter(t) => round' = round
           /\ R!Pass(t) \/ R!Leave(t) =>
                /\ Odd(round'[t]) <=> ~Odd(round[t])
                /\ \A u \in Tids \ {t} : round'[u] = round[u]
                /\ verdict'[t] \in BOOLEAN
<1>1. R!Enter(t) => round' = round
  BY DEF R!Enter
<1>2. ASSUME R!Pass(t) \/ R!Leave(t)
      PROVE  /\ Odd(round'[t]) <=> ~Odd(round[t])
             /\ \A u \in Tids \ {t} : round'[u] = round[u]
             /\ verdict'[t] \in BOOLEAN
  <2>1. round[t] \in Nat /\ round' = [round EXCEPT ![t] = @ + 1]
    BY <1>2 DEF R!Pass, R!Leave, BarrierOK
  <2>2. round'[t] = round[t] + 1 /\ \A u \in Tids \ {t} : round'[u] = round[u]
    BY <2>1 DEF BarrierOK
  <2>3. verdict'[t] \in BOOLEAN
    BY <1>2, BarrierStepType DEF BarrierOK
  <2> QED BY <2>1, <2>2, <2>3, OddFlips
<1> QED BY <1>1, <1>2

\* HATMS: past its barrier every thread is in the section, to lead or to skip it.
LEMMA HAtmSPlace ==
    ASSUME TypeOK, SectionInv, PlaceInv, N > 1, NEW t \in Tids, HAtmS(t) PROVE PlaceInv'
<1>1. ControlOK /\ BarrierOK /\ ctx[t] \in Context /\ Sectioned(prog)
  BY TypeParts DEF ControlOK, PlaceInv
<1>2. CASE HAtmSAlone(t)
  BY <1>1, <1>2, EndPlaces DEF HAtmSAlone, Executes, At, fork, barrier
<1>3. ASSUME HAtmSArrive(t) \/ HAtmSReturn(t) PROVE PlaceInv'
  <2>1. /\ run[t] \in {"exec", "hatms"} /\ Faces(t, "HATMS") /\ UNCHANGED fork
        /\ ~Parked(t)
    BY <1>3 DEF HAtmSArrive, HAtmSReturn, Executes, At, Faces, PlaceInv, Placed, Parked, Ended
  <2>2. ~Here(t) /\ Within(prog, ctx[t].pc + 1) /\ ~Odd(round[t])
    BY <1>1, <2>1, Discipline DEF PlaceInv, Placed
  <2>3. \/ R!Enter(t) /\ Goto(t, "hatms", ctx[t])
        \/ (R!Pass(t) \/ R!Leave(t)) /\ Elected(t, verdict'[t])
    BY <1>3 DEF HAtmSArrive, HAtmSReturn
  <2>4. CASE R!Enter(t) /\ Goto(t, "hatms", ctx[t])
    <3>1. OthersStay(t) /\ run'[t] = "hatms" /\ ctx'[t] = ctx[t] /\ prog' = prog
      BY <1>1, <2>4, GotoFrame DEF Goto
    <3>2. round' = round
      BY <1>1, <2>4, RoundMoves
    <3>3. Placed(t)'
      BY <2>1, <2>2, <3>1, <3>2 DEF Placed, Here, Faces
    <3> QED BY <2>1, <3>1, <3>2, <3>3, PlaceKeeps DEF fork
  <2>5. CASE (R!Pass(t) \/ R!Leave(t)) /\ Elected(t, verdict'[t])
    <3> DEFINE leader == verdict'[t]
               c == [ctx[t] EXCEPT !.inAtomic = leader, !.skip = ~leader]
    <3>1. /\ Odd(round'[t]) /\ (\A u \in Tids \ {t} : round'[u] = round[u])
          /\ leader \in BOOLEAN
      BY <1>1, <2>2, <2>5, RoundMoves
    <3>2. Retire(t, Advance(c))
      BY <2>5 DEF Elected
    <3> HIDE DEF leader
    <3>3. c \in Context /\ c.pc = ctx[t].pc /\ c.inAtomic = leader /\ c.skip = ~leader
      BY <1>1, <3>1 DEF Context
    <3> HIDE DEF c
    <3>4. /\ Advance(c) \in Context /\ Advance(c).inAtomic = leader
          /\ Advance(c).skip = ~leader /\ Advance(c).pc = ctx[t].pc + 1
      BY <3>3, AdvanceType
    <3>5. Placed(t)' /\ OthersStay(t) /\ prog' = prog /\ run'[t] \in {"exec", "exited"}
      BY <1>1, <2>2, <3>1, <3>2, <3>4, GoesOnPlaced
    <3> QED BY <2>1, <3>1, <3>5, PlaceKeeps DEF fork
  <2> QED BY <2>3, <2>4, <2>5
<1> QED BY <1>2, <1>3 DEF HAtmS

\* HATME: past its second barrier every thread is outside, with no flag left.
LEMMA HAtmEPlace ==
    ASSUME TypeOK, SectionInv, PlaceInv, N > 1, NEW t \in Tids, HAtmE(t) PROVE PlaceInv'
<1>1. ControlOK /\ BarrierOK /\ ctx[t] \in Context /\ Sectioned(prog)
  BY TypeParts DEF ControlOK, PlaceInv
<1> DEFINE closed == [ctx[t] EXCEPT !.inAtomic = FALSE, !.skip = FALSE]
           c == [ctx[t] EXCEPT !.skip = FALSE]
<1>2. /\ closed \in Context /\ ~closed.inAtomic /\ ~closed.skip /\ closed.pc = ctx[t].pc
      /\ c \in Context /\ c.inAtomic = ctx[t].inAtomic /\ ~c.skip /\ c.pc = ctx[t].pc
  BY <1>1 DEF Context
<1>3. /\ run[t] \in {"exec", "committed", "hatme"} /\ Faces(t, "HATME") /\ UNCHANGED fork
      /\ ~Parked(t)
  BY DEF HAtmE, HAtmEAlone, HAtmECommit, HAtmEArrive, HAtmEReturn, At, Faces, PlaceInv, Placed,
     Parked, Ended, fork
<1>4. Here(t) /\ ~Within(prog, ctx[t].pc + 1) /\ Odd(round[t])
  BY <1>1, <1>3, Discipline DEF PlaceInv, Placed
<1>5. CASE HAtmEAlone(t)
  <2>1. Fault(t, c) /\ round' = round
    BY <1>5 DEF HAtmEAlone, barrier
  <2>2. Placed(t)' /\ OthersStay(t) /\ prog' = prog /\ run'[t] = "failed"
    BY <1>1, <1>2, <2>1, FailsPlaced
  <2> QED BY <1>3, <2>1, <2>2, PlaceKeeps DEF fork
<1>6. CASE HAtmECommit(t)
  <2>1. Goto(t, "committed", closed) /\ round' = round
    BY <1>6 DEF HAtmECommit, barrier
  <2>2. OthersStay(t) /\ run'[t] = "committed" /\ ctx'[t] = closed /\ prog' = prog
    BY <1>1, <1>2, <2>1, GotoFrame DEF Goto
  <2>3. Placed(t)'
    BY <1>2, <1>3, <1>4, <2>1, <2>2 DEF Placed, Here, Faces
  <2> QED BY <1>3, <2>1, <2>2, <2>3, PlaceKeeps DEF fork
<1> HIDE DEF c
<1>7. ASSUME NEW d \in Context, ~d.inAtomic, ~d.skip, d.pc = ctx[t].pc,
             R!Pass(t) \/ R!Leave(t), Retire(t, Advance(d))
      PROVE  PlaceInv'
  <2>1. ~Odd(round'[t]) /\ \A u \in Tids \ {t} : round'[u] = round[u]
    BY <1>1, <1>4, <1>7, RoundMoves
  <2>2. /\ Advance(d) \in Context /\ ~Advance(d).inAtomic /\ ~Advance(d).skip
        /\ Advance(d).pc = ctx[t].pc + 1
    BY <1>7, AdvanceType
  <2>3. Placed(t)' /\ OthersStay(t) /\ prog' = prog /\ run'[t] \in {"exec", "exited"}
    BY <1>1, <1>4, <1>7, <2>1, <2>2, GoesOnPlaced
  <2> QED BY <1>3, <2>1, <2>3, PlaceKeeps DEF fork
<1>8. ASSUME HAtmEArrive(t) PROVE PlaceInv'
  <2>1. ~c.inAtomic /\ Close(t, c)
    BY <1>2, <1>8 DEF HAtmEArrive, c, SectionInv, Flags
  <2>2. CASE R!Enter(t) /\ Goto(t, "hatme", c)
    <3>1. OthersStay(t) /\ run'[t] = "hatme" /\ ctx'[t] = c /\ prog' = prog
      BY <1>1, <1>2, <2>2, GotoFrame DEF Goto
    <3>2. round' = round
      BY <1>1, <2>2, RoundMoves
    <3>3. Placed(t)'
      BY <1>2, <1>3, <1>4, <3>1, <3>2 DEF Placed, Here, Faces
    <3> QED BY <1>3, <3>1, <3>2, <3>3, PlaceKeeps DEF fork
  <2>3. CASE R!Pass(t) /\ Retire(t, Advance(c))
    BY <1>2, <1>7, <2>1, <2>3
  <2> QED BY <2>1, <2>2, <2>3 DEF Close
<1>9. ASSUME HAtmEReturn(t) PROVE PlaceInv'
  <2>1. run[t] = "hatme" /\ R!Leave(t) /\ Retire(t, Advance(ctx[t]))
    BY <1>9 DEF HAtmEReturn
  <2>2. ~ctx[t].inAtomic /\ ~ctx[t].skip
    BY <2>1 DEF SectionInv, Flags, PlaceInv, Placed
  <2> QED BY <1>1, <1>7, <2>1, <2>2
<1> QED BY <1>5, <1>6, <1>8, <1>9 DEF HAtmE

\* A program with several threads keeps its place.
LEMMA PlaceStep ==
    ASSUME TypeOK, SectionInv, PlaceInv, N > 1, [Next]_vars PROVE PlaceInv'
<1>1. ASSUME NEW t \in Tids, Step(t) PROVE PlaceInv'
  BY <1>1, LocalPlace, StoreSharedPlace, HForkPlace, HAtmSPlace, HAtmEPlace, MergePlace DEF Step
<1>2. CASE UNCHANGED vars
  BY <1>2 DEF vars, fork, barrier, PlaceInv, Placed, Here, Faces, Parked
<1> QED BY <1>1, <1>2 DEF Next, Done

\* Only HFORK and the leader at its HATME replace the snapshot.
LEMMA SnapshotStep ==
    ASSUME TypeOK, [Next]_vars, snapshot' # snapshot, run'[0] # "spawning"
    PROVE  \E t \in Tids : HAtmECommit(t)
<1>1. ControlOK /\ 0 \in Tids
  BY TypeParts, NAssumption DEF Tids
<1>2. ~(UNCHANGED vars) /\ ~(UNCHANGED shared)
  BY DEF vars, shared
<1>3. PICK t \in Tids : Step(t)
  BY <1>2 DEF Next, Done
<1>4. ~(t = 0 /\ HForkSetup)
  <2> SUFFICES ASSUME t = 0, HForkSetup PROVE FALSE
    OBVIOUS
  <2>1. ~M!CreationPanics(Region)
    BY <1>2 DEF HForkSetup
  <2>2. run'[0] = "spawning"
    BY <1>1, <2>1 DEF HForkSetup, Goto, ControlOK
  <2> QED BY <2>2
<1>5. ~HFork(t)
  BY <1>2, <1>4 DEF HFork, HForkRefused, HForkSingle, HForkSpawn, HForkSpawnFails, HForkDone
<1>6. ~(Local(t) \/ StoreShared(t) \/ HAtmS(t) \/ Merge(t))
  BY <1>2 DEF Local, StoreShared, HAtmS, HAtmSAlone, HAtmSArrive, HAtmSReturn, Merge, HMerge,
     HMergeJoined
<1>7. HAtmECommit(t)
  BY <1>2, <1>3, <1>5, <1>6 DEF Step, HAtmE, HAtmEAlone, HAtmEArrive, HAtmEReturn
<1> QED BY <1>7

\* While the leader commits, no thread executes outside a section.
LEMMA CommitSeesNoReader ==
    ASSUME BarrierOK, SectionInv, PlaceInv, NEW t \in Tids, HAtmECommit(t), NEW u \in Tids
    PROVE  ~ReadsSnapshot(u)
<1> SUFFICES ASSUME ReadsSnapshot(u) PROVE FALSE
  OBVIOUS
<1>1. /\ run[t] = "exec" /\ ctx[t].inAtomic
      /\ run[u] = "exec" /\ ~ctx[u].inAtomic /\ ~ctx[u].skip
  BY DEF HAtmECommit, At, ReadsSnapshot
<1>2. Odd(round[t]) /\ ~Odd(round[u])
  BY <1>1 DEF PlaceInv, Placed, Parked, Ended
<1>3. round[t] # round[u] /\ round[t] \in Nat /\ round[u] \in Nat
  BY <1>2 DEF BarrierOK
<1>4. t \notin inside /\ u \notin inside
  BY <1>1 DEF SectionInv, InsideIsWaiting, Waits
<1>5. round[t] < round[u] \/ round[u] < round[t]
  BY <1>3
<1> QED BY <1>4, <1>5 DEF SectionInv, Lockstep

\* At the start every thread is outside the sections.
LEMMA PlaceInit == ASSUME Init, Sectioned(prog) PROVE PlaceInv
<1>1. /\ \A t \in Tids : run[t] = IF t = 0 THEN "exec" ELSE "idle"
      /\ \A t \in Tids : ~ctx[t].inAtomic /\ ~ctx[t].skip /\ ctx[t].pc = 0
      /\ \A t \in Tids : round[t] = 0
  BY DEF Init, R!Init, NewContext
<1>2. ~Within(prog, 0)
  <2>1. prog \in Seq([op : STRING, arg : Nat])
    BY ProgramsAssumption DEF Init
  <2> QED BY <2>1 DEF Within
<1>3. \A t \in Tids : Placed(t)
  BY <1>1, <1>2, OddFlips DEF Placed, Parked, Ended, Here
<1>4. run[0] # "spawning"
  BY <1>1, NAssumption DEF Tids
<1> QED BY <1>3, <1>4 DEF PlaceInv

\* Between two sections all threads read one frozen memory: for every program whose
\* sections are well formed, any number of threads and any interleaving of them, also
\* when threads take different sections, fail or are stopped.
THEOREM ReadersSeeOneMemory == Spec /\ Sectioned(prog) => SnapshotFrozen
<1>1. Init /\ Sectioned(prog) => (N > 1 => PlaceInv)
  BY PlaceInit
<1>2. TypeOK /\ SectionInv /\ (N > 1 => PlaceInv) /\ [Next]_vars => (N > 1 => PlaceInv)'
  BY PlaceStep
<1>3. TypeOK /\ SectionInv /\ (N > 1 => PlaceInv) /\ [Next]_vars =>
          [snapshot' # snapshot /\ run'[0] # "spawning"
             => \A t \in Started : ~ReadsSnapshot(t)]_vars
  <2> SUFFICES ASSUME TypeOK, SectionInv, N > 1 => PlaceInv, [Next]_vars,
                      snapshot' # snapshot, run'[0] # "spawning", NEW u \in Started
               PROVE  ~ReadsSnapshot(u)
    OBVIOUS
  <2>1. BarrierOK /\ u \in Tids
    BY TypeParts DEF Started, ControlOK
  <2>2. PICK t \in Tids : HAtmECommit(t)
    BY SnapshotStep
  <2>3. N > 1
    BY <2>2 DEF HAtmECommit
  <2> QED BY <2>1, <2>2, <2>3, CommitSeesNoReader
<1> QED BY <1>1, <1>2, <1>3, SpmdTypeCorrect, SectionInvariant, PTL DEF Spec, SnapshotFrozen

-----------------------------------------------------------------------------
(***************************************************************************)
(* No update is lost or done twice.  While thread 0 is in a region, its    *)
(* own image of the shared cells is the memory the region began with, so   *)
(* the live cell is compared with it: a thread that has been through r     *)
(* rounds has seen r \div 2 sections closed.  CountInv says what the cell  *)
(* is between two sections (Settled), when the leader is chosen and still  *)
(* asleep (Chosen), while it works (Leads) and when it has closed its      *)
(* section and others have not yet (Closed).                               *)
(***************************************************************************)
InRegion == ctx[0].sharing \/ run[0] = "spawning"
Cell(a) == data[M!Offset(Region, a)]
Grown(a, k) == (ctx[0].cmem[a] + k) % ValueSpace
Half(n) == n \div 2

\* t, the leader, has its update still to do.
Due(t, a) ==
    \E k \in DOMAIN prog :
        /\ Adds(prog, a, k)
        /\ \/ ctx[t].pc + 1 = k
           \/ ctx[t].pc + 1 = k + 1 /\ ctx[t].acc = Cell(a)
           \/ ctx[t].pc + 1 = k + 2 /\ ctx[t].acc = Incremented(Cell(a))
           \/ Faces(t, "JMPAF") /\ k = Arg(t) + 1
Leads(t, a) ==
    /\ ~ctx[t].skip
    /\ \/ Due(t, a) /\ Cell(a) = Grown(a, Half(round[t]))
       \/ Faces(t, "HATME") /\ Cell(a) = Grown(a, Half(round[t]) + 1)

Foremost(t) == \A u \in Tids : round[u] <= round[t]
Settled(a) ==
    \A t \in Tids : ~Odd(round[t]) /\ Foremost(t) => Cell(a) = Grown(a, Half(round[t]))
Chosen(a) ==
    \A t \in Tids : Holds(t) /\ run[t] = "hatms" => Cell(a) = Grown(a, Half(round[t]))
Closed(a) ==
    (\A u \in Tids : ~Holds(u) /\ ~Parked(u)) =>
        \A t \in Tids : Odd(round[t]) => Cell(a) = Grown(a, Half(round[t]) + 1)

\* A round that is gathering has a first thread.
FirstExists ==
    \A t \in inside : Foremost(t) => \E l \in first : round[l] = round[t]
Shares == \A w \in Workers : ~Parked(w) => ctx[w].sharing

CountInv(a) ==
    InRegion =>
        /\ run[0] = "spawning" => round[0] = 0
        /\ \A t \in Tids : InSection(t) => Leads(t, a)
        /\ Settled(a)
        /\ Chosen(a)
        /\ Closed(a)
        /\ FirstExists
        /\ Shares

\* One more, modulo ValueSpace.
LEMMA OneMore ==
    ASSUME NEW x \in Nat PROVE ((x % ValueSpace) + 1) % ValueSpace = (x + 1) % ValueSpace
<1> DEFINE V == ValueSpace
           q == x \div V
           r == x % V
<1>0. V \in Nat \ {0}
  BY SizesAssumption
<1> HIDE DEF V
<1>1. q \in Nat /\ r \in 0 .. V - 1 /\ x = (V * q) + r
  BY <1>0
<1>2. ASSUME NEW k \in Nat, NEW s \in 0 .. V - 1 PROVE ((V * k) + s) % V = s
  <2>1. V * k \in Nat
    BY <1>0
  <2> DEFINE y == (V * k) + s
  <2>2. y \in Nat /\ y = V * (y \div V) + (y % V) /\ (y % V) \in 0 .. V - 1
    BY <1>0, <2>1
  <2>3. y \div V = k
    BY <1>0
  <2> QED BY <1>0, <2>2, <2>3
<1> HIDE DEF q, r
<1>3. CASE r + 1 < V
  <2>1. (r + 1) % V = r + 1
    BY <1>0, <1>1, <1>3
  <2>2. x + 1 = (V * q) + (r + 1) /\ r + 1 \in 0 .. V - 1
    BY <1>0, <1>1, <1>3
  <2>3. ((V * q) + (r + 1)) % V = r + 1
    BY <1>1, <1>2, <2>2
  <2> QED BY <2>1, <2>2, <2>3 DEF r, V
<1>4. CASE r + 1 = V
  <2>1. V % V = 0
    BY <1>0
  <2>2. x + 1 = (V * (q + 1)) + 0 /\ q + 1 \in Nat /\ 0 \in 0 .. V - 1
    BY <1>0, <1>1, <1>4
  <2>3. ((V * (q + 1)) + 0) % V = 0
    BY <1>2, <2>2
  <2> QED BY <1>4, <2>1, <2>2, <2>3 DEF r, V
<1> QED BY <1>0, <1>1, <1>3, <1>4

\* The leader's store makes the cell grow by one.
LEMMA GrowsByOne ==
    ASSUME TypeOK, NEW a \in M!Addr, NEW k \in Nat
    PROVE  Incremented(Grown(a, k)) = Grown(a, k + 1)
<1>1. ctx[0].cmem[a] \in Nat
  BY TypeParts, NAssumption DEF ControlOK, Context, Tids, Val
<1>2. ctx[0].cmem[a] + k \in Nat /\ ctx[0].cmem[a] + (k + 1) = (ctx[0].cmem[a] + k) + 1
  BY <1>1
<1> QED BY <1>2, OneMore DEF Incremented, Grown

\* Two rounds make a section.
LEMMA HalfGrows ==
    ASSUME NEW n \in Nat
    PROVE  Half(n) \in Nat /\ Half(n + 1) = IF Odd(n) THEN Half(n) + 1 ELSE Half(n)
BY DEF Half, Odd

\* Where the leader stands in its update.
LEMMA DueFaces ==
    ASSUME ControlOK, NEW t \in Tids, NEW a, Due(t, a)
    PROVE  \E k \in DOMAIN prog :
              /\ Adds(prog, a, k)
              /\ \/ Faces(t, "LOAD") /\ Arg(t) = a /\ ctx[t].pc + 1 = k
                 \/ Faces(t, "INC") /\ ctx[t].acc = Cell(a) /\ ctx[t].pc + 1 = k + 1
                 \/ /\ Faces(t, "STORE") /\ Arg(t) = a /\ ctx[t].pc + 1 = k + 2
                    /\ ctx[t].acc = Incremented(Cell(a))
                 \/ Faces(t, "JMPAF") /\ k = Arg(t) + 1
<1>1. prog \in Seq([op : STRING, arg : Nat]) /\ ctx[t].pc \in Nat
  BY ProgramsAssumption DEF ControlOK, Context
<1>2. DOMAIN prog = 1 .. Len(prog) /\ Len(prog) \in Nat
  BY <1>1
<1>3. PICK k \in DOMAIN prog :
        /\ Adds(prog, a, k)
        /\ \/ ctx[t].pc + 1 = k
           \/ ctx[t].pc + 1 = k + 1 /\ ctx[t].acc = Cell(a)
           \/ ctx[t].pc + 1 = k + 2 /\ ctx[t].acc = Incremented(Cell(a))
           \/ Faces(t, "JMPAF") /\ k = Arg(t) + 1
  BY DEF Due
<1>4. k \in Nat /\ k + 3 <= Len(prog)
  BY <1>2, <1>3 DEF Adds
<1>5. /\ prog[k].op = "LOAD" /\ prog[k].arg = a
      /\ prog[k + 1].op = "INC"
      /\ prog[k + 2].op = "STORE" /\ prog[k + 2].arg = a
  BY <1>3 DEF Adds
<1> DEFINE i == ctx[t].pc + 1
<1>6. i <= Len(prog) => ctx[t].pc < Len(prog)
  BY <1>1, <1>2
<1>7. i <= Len(prog) => Arg(t) = prog[i].arg /\ \A op : Faces(t, op) <=> prog[i].op = op
  BY <1>6 DEF Arg, Faces
<1> HIDE DEF i
<1>8. CASE i = k
  BY <1>2, <1>3, <1>4, <1>5, <1>7, <1>8 DEF i
<1>9. CASE i = k + 1 /\ ctx[t].acc = Cell(a)
  BY <1>2, <1>3, <1>4, <1>5, <1>7, <1>9 DEF i
<1>10. CASE i = k + 2 /\ ctx[t].acc = Incremented(Cell(a))
  BY <1>2, <1>3, <1>4, <1>5, <1>7, <1>10 DEF i
<1>11. CASE Faces(t, "JMPAF") /\ k = Arg(t) + 1
  BY <1>3, <1>11
<1> QED BY <1>3, <1>8, <1>9, <1>10, <1>11 DEF i

LEMMA RetireData ==
    ASSUME ControlOK, NEW t \in Tids, NEW c \in Context, Retire(t, c)
    PROVE  /\ ctx'[t].acc = c.acc /\ ctx'[t].cmem = c.cmem
           /\ ctx'[t].sharing = c.sharing
<1> DEFINE e == Limited(t, Dispatched(t, c))
<1>1. e.acc = c.acc /\ e.cmem = c.cmem /\ e.sharing = c.sharing
  BY DEF Limited, Dispatched, Context
<1>2. ctx'[t] = e
  BY DEF Retire, ControlOK
<1> QED BY <1>1, <1>2

\* A thread outside the barrier is in the foremost round, and nobody is more than
\* one round behind.
LEMMA OutsideIsForemost ==
    ASSUME BarrierOK, SectionInv, NEW t \in Tids, t \notin inside
    PROVE  /\ Foremost(t)
           /\ \A u \in Tids : round[u] = round[t] \/ round[u] + 1 = round[t]
BY DEF BarrierOK, SectionInv, Lockstep, Foremost

\* t goes from one place outside the barrier to another and leaves the shared cells
\* alone.  If it is the leader, it stays, dies or has done its update.
LEMMA CountKeeps ==
    ASSUME TypeOK, SectionInv, PlaceInv, NEW a \in M!Addr, CountInv(a), NEW t \in Tids,
           OthersStay(t), prog' = prog, UNCHANGED <<data, barrier>>,
           ~Parked(t), run[t] # "hatms", run'[t] # "hatms",
           InRegion' => InRegion /\ ctx'[0].cmem[a] = ctx[0].cmem[a],
           InRegion' /\ t # 0 => ctx'[t].sharing = ctx[t].sharing,
           run'[0] = "spawning" => run[0] = "spawning",
           InRegion' /\ InSection(t)' => Leads(t, a)',
           InRegion' /\ InSection(t) =>
               Parked(t)' \/ InSection(t)' \/ Cell(a) = Grown(a, Half(round[t]) + 1)
    PROVE  CountInv(a)'
<1> SUFFICES ASSUME InRegion'
             PROVE  /\ run'[0] = "spawning" => round'[0] = 0
                    /\ \A u \in Tids : InSection(u)' => Leads(u, a)'
                    /\ Settled(a)' /\ Chosen(a)' /\ Closed(a)' /\ FirstExists' /\ Shares'
  BY DEF CountInv
<1>1. /\ InRegion
      /\ run[0] = "spawning" => round[0] = 0
      /\ \A u \in Tids : InSection(u) => Leads(u, a)
      /\ Settled(a) /\ Chosen(a) /\ Closed(a) /\ FirstExists /\ Shares
  BY DEF CountInv
<1>2. round' = round /\ inside' = inside /\ first' = first /\ data' = data
  BY DEF barrier
<1>3. Cell(a)' = Cell(a) /\ \A k : Grown(a, k)' = Grown(a, k)
  BY <1>2 DEF Cell, Grown
<1>4. \A u \in Tids \ {t} : ctx'[u] = ctx[u] /\ run'[u] = run[u]
  BY DEF OthersStay
<1>5. ASSUME NEW u \in Tids, InSection(u)' PROVE Leads(u, a)'
  <2>1. CASE u = t
    BY <1>5, <2>1
  <2>2. CASE u # t
    BY <1>1, <1>2, <1>3, <1>4, <1>5, <2>2 DEF InSection, Leads, Due, Faces, Arg
  <2> QED BY <2>1, <2>2
<1>6. Settled(a)'
  BY <1>1, <1>2, <1>3 DEF Settled, Foremost
<1>7. \A u \in Tids : (Holds(u) /\ run[u] = "hatms")' => Holds(u) /\ run[u] = "hatms"
  BY <1>2, <1>4 DEF Holds, InSection
<1>8. Chosen(a)'
  BY <1>1, <1>2, <1>3, <1>7 DEF Chosen
<1>9. Closed(a)'
  <2> SUFFICES ASSUME \A u \in Tids : ~Holds(u)' /\ ~Parked(u)', NEW x \in Tids, Odd(round[x])
               PROVE  Cell(a) = Grown(a, Half(round[x]) + 1)
    BY <1>2, <1>3 DEF Closed
  <2>1. \A u \in Tids \ {t} : ~Holds(u) /\ ~Parked(u)
    BY <1>2, <1>4 DEF Holds, InSection, Parked
  <2>2. CASE ~InSection(t)
    BY <1>1, <2>1, <2>2 DEF Closed, Holds
  <2>3. CASE InSection(t)
    <3>1. ~InSection(t)' /\ ~Parked(t)'
      BY DEF Holds
    <3>2. t \notin inside /\ Odd(round[t])
      BY <2>3 DEF InSection, SectionInv, InsideIsWaiting, Waits, PlaceInv, Placed, Parked, Ended
    <3>3. round[x] = round[t]
      BY <3>2, OutsideIsForemost, TypeParts, OddFlips DEF BarrierOK
    <3> QED BY <2>3, <3>1, <3>3
  <2> QED BY <2>2, <2>3
<1>10. FirstExists'
  BY <1>1, <1>2 DEF FirstExists, Foremost
<1>11. Shares'
  BY <1>1, <1>4 DEF Shares, Workers, Parked
<1> QED BY <1>1, <1>2, <1>5, <1>6, <1>8, <1>9, <1>10, <1>11

\* t enters a round and blocks.
LEMMA EnterCounts ==
    ASSUME TypeOK, SectionInv, PlaceInv, NEW a \in M!Addr, CountInv(a), NEW t \in Tids,
           R!Enter(t), OthersStay(t), prog' = prog, data' = data,
           ~Parked(t), ~InSection(t), run'[t] \in {"hatms", "hatme"},
           ctx'[t].sharing = ctx[t].sharing, ctx'[t].cmem = ctx[t].cmem
    PROVE  CountInv(a)'
<1>0. BarrierOK /\ 0 \in Tids
  BY TypeParts, NAssumption DEF Tids
<1>1. /\ t \notin inside /\ inside' = inside \cup {t} /\ round' = round
      /\ \A u \in Tids \ {t} : u \in first' <=> u \in first
  BY DEF R!Enter
<1>2. \A u \in Tids \ {t} : ctx'[u] = ctx[u] /\ run'[u] = run[u]
  BY DEF OthersStay
<1>3. InRegion' => InRegion /\ (run'[0] = "spawning" => run[0] = "spawning")
  BY <1>0, <1>2 DEF InRegion
<1> SUFFICES ASSUME InRegion'
             PROVE  /\ run'[0] = "spawning" => round'[0] = 0
                    /\ \A u \in Tids : InSection(u)' => Leads(u, a)'
                    /\ Settled(a)' /\ Chosen(a)' /\ Closed(a)' /\ FirstExists' /\ Shares'
  BY DEF CountInv
<1>4. /\ InRegion
      /\ run[0] = "spawning" => round[0] = 0
      /\ \A u \in Tids : InSection(u) => Leads(u, a)
      /\ Settled(a) /\ Chosen(a) /\ Closed(a) /\ FirstExists /\ Shares
  BY <1>0, <1>2 DEF CountInv, InRegion
<1>5. Cell(a)' = Cell(a) /\ \A k : Grown(a, k)' = Grown(a, k)
  BY <1>0, <1>2 DEF Cell, Grown
<1>6. ASSUME NEW u \in Tids, InSection(u)' PROVE Leads(u, a)'
  <2>1. u # t
    BY <1>6 DEF InSection
  <2> QED BY <1>1, <1>2, <1>4, <1>5, <1>6, <2>1 DEF InSection, Leads, Due, Faces, Arg
<1>7. Settled(a)'
  BY <1>1, <1>4, <1>5 DEF Settled, Foremost
<1>8. \A u \in Tids : Holds(u)' <=> Holds(u)
  <2>1. ~Holds(t)
    <3>1. run[t] # "hatms"
      BY <1>1 DEF SectionInv, InsideIsWaiting, Waits
    <3> QED BY <3>1 DEF Holds
  <2>2. ~Holds(t)'
    <3>1. \A u \in Tids : ~(round[u] > round[t])
      BY <1>0, <1>1, OutsideIsForemost DEF Foremost, BarrierOK
    <3> QED BY <1>1, <3>1 DEF Holds, InSection
  <2>3. \A u \in Tids \ {t} : Holds(u)' <=> Holds(u)
    BY <1>1, <1>2 DEF Holds, InSection
  <2> QED BY <2>1, <2>2, <2>3
<1>9. Chosen(a)'
  <2> SUFFICES ASSUME NEW u \in Tids, Holds(u)', run'[u] = "hatms"
               PROVE  Cell(a) = Grown(a, Half(round[u]))
    BY <1>1, <1>5 DEF Chosen
  <2>1. Holds(u)
    BY <1>8
  <2>2. run[u] = "hatms"
    BY <1>2, <2>1 DEF Holds, InSection
  <2> QED BY <1>4, <2>1, <2>2 DEF Chosen
<1>10. \A u \in Tids : Parked(u)' <=> Parked(u)
  BY <1>2 DEF Parked, Ended
<1>11. Closed(a)'
  BY <1>1, <1>4, <1>5, <1>8, <1>10 DEF Closed
<1>12. FirstExists'
  <2> SUFFICES ASSUME NEW x \in inside', Foremost(x)
               PROVE  \E l \in first' : round[l] = round[x]
    BY <1>1 DEF FirstExists, Foremost
  <2>1. Foremost(t) /\ t \in Tids /\ x \in Tids /\ round[x] \in Nat /\ round[t] \in Nat
    BY <1>0, <1>1, OutsideIsForemost DEF BarrierOK
  <2>2. round[x] = round[t]
    BY <2>1 DEF Foremost
  <2>3. CASE \E u \in Tids \ {t} : R!HasEntered(u, t)
    <3>1. PICK u \in Tids \ {t} : R!HasEntered(u, t)
      BY <2>3
    <3>2. u \in inside /\ round[u] = round[t]
      BY <1>0, <2>1, <3>1 DEF R!HasEntered, Foremost, BarrierOK
    <3>3. Foremost(u)
      BY <2>1, <3>2 DEF Foremost
    <3>4. PICK l \in first : round[l] = round[u]
      BY <1>4, <3>2, <3>3 DEF FirstExists
    <3>5. first' = first
      BY <2>3 DEF R!Enter
    <3> QED BY <2>2, <3>2, <3>4, <3>5
  <2>4. CASE ~ \E u \in Tids \ {t} : R!HasEntered(u, t)
    <3>1. t \in first'
      BY <2>4 DEF R!Enter
    <3> QED BY <2>2, <3>1
  <2> QED BY <2>3, <2>4
<1>13. Shares'
  BY <1>2, <1>4 DEF Shares, Workers, Parked
<1>14. run'[0] = "spawning" => round'[0] = 0
  BY <1>0, <1>1, <1>2, <1>4
<1> QED BY <1>6, <1>7, <1>9, <1>11, <1>12, <1>13, <1>14

\* What the place of a thread in the barrier says about its round.
LEMMA WaitingParity ==
    ASSUME TypeOK, PlaceInv, NEW t \in Tids
    PROVE  /\ run[t] = "hatms" => ~Odd(round[t])
           /\ run[t] = "hatme" => Odd(round[t])
<1>1. ControlOK /\ Sectioned(prog) /\ Placed(t)
  BY TypeParts DEF PlaceInv
<1>2. CASE run[t] = "hatms"
  BY <1>1, <1>2, Discipline DEF Placed, Parked, Ended
<1>3. CASE run[t] = "hatme"
  BY <1>1, <1>3, Discipline DEF Placed, Parked, Ended
<1> QED BY <1>2, <1>3

\* t arrives last.  At HATMS it wakes the first thread up to lead; at HATME it finds
\* that every update of the section is done.
LEMMA PassCounts ==
    ASSUME TypeOK, SectionInv, PlaceInv, N > 1, NEW a \in M!Addr, CountInv(a),
           NEW t \in Tids, R!Pass(t), OthersStay(t), prog' = prog, data' = data,
           ~Parked(t), ~InSection(t), run[t] # "spawning",
           run'[t] \in {"exec", "exited"}, ~ctx'[t].inAtomic,
           ctx'[t].sharing = ctx[t].sharing, ctx'[t].cmem = ctx[t].cmem
    PROVE  CountInv(a)'
<1>0. BarrierOK /\ 0 \in Tids
  BY TypeParts, NAssumption DEF Tids
<1>1. /\ t \notin inside /\ inside' = inside /\ first' = first
      /\ \A u \in Tids \ {t} : u \in inside /\ round[u] = round[t] /\ round'[u] = round[t]
      /\ round'[t] = round[t] + 1 /\ round[t] \in Nat
  BY <1>0, PassTogether DEF R!Pass, SectionInv, RoundInv, BarrierOK
<1>2. /\ \A u \in Tids \ {t} : ctx'[u] = ctx[u] /\ run'[u] = run[u]
      /\ \A u \in Tids \ {t} : Waits(u)
  BY <1>1 DEF OthersStay, SectionInv, InsideIsWaiting
<1>3. run'[0] # "spawning" /\ (InRegion' => InRegion)
  BY <1>0, <1>2 DEF InRegion, Waits
<1> SUFFICES ASSUME InRegion'
             PROVE  /\ \A u \in Tids : ~InSection(u)'
                    /\ Settled(a)' /\ Chosen(a)' /\ Closed(a)' /\ FirstExists' /\ Shares'
  BY <1>3 DEF CountInv
<1>4. Settled(a) /\ Chosen(a) /\ Closed(a) /\ FirstExists /\ Shares
  BY <1>3 DEF CountInv
<1>5. Cell(a)' = Cell(a) /\ \A k : Grown(a, k)' = Grown(a, k)
  BY <1>0, <1>2 DEF Cell, Grown
<1>6. /\ \A u \in Tids : ~InSection(u) /\ ~InSection(u)'
      /\ \A u \in Tids : ~Parked(u)
  BY <1>2 DEF InSection, Waits, Parked, Ended
<1>7. Shares'
  BY <1>2, <1>4 DEF Shares, Workers, Parked, Waits
<1>8. ASSUME NEW x \in Tids PROVE Foremost(x) /\ (Foremost(x)' => x = t)
  BY <1>1 DEF Foremost
<1>9. FirstExists'
  BY <1>0, <1>1, <1>8 DEF FirstExists, BarrierOK
<1>10. CASE ~Odd(round[t])
  <2>1. Odd(round'[t]) /\ Half(round'[t]) = Half(round[t])
    BY <1>1, <1>10, OddFlips, HalfGrows
  <2>2. Cell(a) = Grown(a, Half(round[t]))
    BY <1>4, <1>8, <1>10 DEF Settled
  <2>3. Settled(a)'
    BY <1>8, <2>1 DEF Settled
  <2>4. Chosen(a)'
    <3> SUFFICES ASSUME NEW u \in Tids, run'[u] = "hatms"
                 PROVE  Cell(a) = Grown(a, Half(round'[u]))
      BY <1>5 DEF Chosen
    <3>1. u # t
      OBVIOUS
    <3> QED BY <1>1, <2>2, <3>1
  <2>5. Closed(a)'
    <3>1. PICK u \in Tids \ {t} : TRUE
      <4>1. 0 \in Tids /\ 1 \in Tids
        BY NAssumption DEF Tids
      <4>2. 0 # t \/ 1 # t
        OBVIOUS
      <4> QED BY <4>1, <4>2
    <3>2. PICK l \in first : round[l] = round[u]
      BY <1>1, <1>4, <1>8, <3>1 DEF FirstExists
    <3>3. l \in Tids /\ l # t /\ l \in inside
      BY <1>0, <1>1, <3>2 DEF BarrierOK
    <3>4. run[l] = "hatms"
      BY <1>1, <1>2, <1>10, <3>3, WaitingParity DEF Waits
    <3>5. Holds(l)'
      BY <1>1, <1>2, <3>2, <3>3, <3>4 DEF Holds
    <3> QED BY <3>3, <3>5 DEF Closed
  <2> QED BY <1>6, <1>7, <1>9, <2>3, <2>4, <2>5
<1>11. CASE Odd(round[t])
  <2>1. ~Odd(round'[t]) /\ Half(round'[t]) = Half(round[t]) + 1
    BY <1>1, <1>11, OddFlips, HalfGrows
  <2>2. \A u \in Tids \ {t} : run[u] = "hatme"
    BY <1>1, <1>2, <1>11, WaitingParity DEF Waits
  <2>3. run[t] # "hatms"
    BY <1>1 DEF SectionInv, InsideIsWaiting, Waits
  <2>4. \A u \in Tids : ~Holds(u)
    BY <1>6, <2>2, <2>3 DEF Holds
  <2>5. Cell(a) = Grown(a, Half(round[t]) + 1)
    BY <1>4, <1>6, <1>11, <2>4 DEF Closed
  <2>6. Settled(a)'
    BY <1>5, <1>8, <2>1, <2>5 DEF Settled
  <2>7. Chosen(a)'
    BY <1>2, <2>2 DEF Chosen
  <2>8. Closed(a)'
    <3> SUFFICES ASSUME NEW x \in Tids, Odd(round'[x])
                 PROVE  Cell(a) = Grown(a, Half(round'[x]) + 1)
      BY <1>5 DEF Closed
    <3>1. x # t
      BY <2>1
    <3> QED BY <1>1, <2>5, <3>1
  <2> QED BY <1>6, <1>7, <1>9, <2>6, <2>7, <2>8
<1> QED BY <1>10, <1>11

\* t leaves a round.  Somebody left it before, so what the next round says of the
\* cell is known; if t leads, it begins its update.
LEMMA LeaveCounts ==
    ASSUME TypeOK, SectionInv, PlaceInv, NEW a \in M!Addr, CountInv(a),
           NEW t \in Tids, R!Leave(t), OthersStay(t), prog' = prog, data' = data,
           run'[t] \in {"exec", "exited"},
           ctx'[t].sharing = ctx[t].sharing, ctx'[t].cmem = ctx[t].cmem,
           run[t] = "hatms" => ctx'[t].inAtomic = (t \in first),
           InSection(t)' => run[t] = "hatms" /\ ~ctx'[t].skip /\ Due(t, a)'
    PROVE  CountInv(a)'
<1>0. BarrierOK /\ 0 \in Tids
  BY TypeParts, NAssumption DEF Tids
<1>1. /\ t \in inside /\ inside' = inside \ {t}
      /\ \A u \in Tids \ {t} : round'[u] = round[u] /\ (u \in first' <=> u \in first)
      /\ round'[t] = round[t] + 1
      /\ \A u \in Tids : round[u] \in Nat
      /\ first \subseteq inside /\ inside \subseteq Tids /\ first' = first \ {t}
  BY <1>0 DEF R!Leave, BarrierOK
<1>2. PICK m \in Tids : round[m] > round[t]
  BY DEF R!Leave, SectionInv, LastHasPassed
<1>3. /\ round[m] = round[t] + 1
      /\ \A u \in Tids : round[u] <= round[t] + 1
  BY <1>1, <1>2 DEF SectionInv, Lockstep
<1>4. \A u \in Tids \ {t} : ctx'[u] = ctx[u] /\ run'[u] = run[u]
  BY DEF OthersStay
<1>5. Waits(t)
  BY <1>1 DEF SectionInv, InsideIsWaiting
<1>6. (run'[0] = "spawning" => run[0] = "spawning" /\ t # 0) /\ (InRegion' => InRegion)
  BY <1>0, <1>4 DEF InRegion
<1> SUFFICES ASSUME InRegion'
             PROVE  /\ run'[0] = "spawning" => round'[0] = 0
                    /\ \A u \in Tids : InSection(u)' => Leads(u, a)'
                    /\ Settled(a)' /\ Chosen(a)' /\ Closed(a)' /\ FirstExists' /\ Shares'
  BY DEF CountInv
<1>7. /\ run[0] = "spawning" => round[0] = 0
      /\ \A u \in Tids : InSection(u) => Leads(u, a)
      /\ Settled(a) /\ Chosen(a) /\ Closed(a) /\ FirstExists /\ Shares
  BY <1>6 DEF CountInv
<1>8. Cell(a)' = Cell(a) /\ \A k : Grown(a, k)' = Grown(a, k)
  BY <1>0, <1>4 DEF Cell, Grown
<1>9. ASSUME NEW u \in Tids, InSection(u)' PROVE Leads(u, a)'
  <2>1. CASE u # t
    BY <1>1, <1>4, <1>7, <1>8, <1>9, <2>1 DEF InSection, Leads, Due, Faces, Arg
  <2>2. CASE u = t
    <3>1. run[t] = "hatms" /\ t \in first
      BY <1>9, <2>2 DEF InSection
    <3>2. Cell(a) = Grown(a, Half(round[t]))
      BY <1>2, <1>7, <3>1 DEF Chosen, Holds
    <3>3. Half(round'[t]) = Half(round[t])
      BY <1>1, <3>1, WaitingParity, HalfGrows
    <3> QED BY <1>8, <1>9, <2>2, <3>2, <3>3 DEF Leads
  <2> QED BY <2>1, <2>2
<1>10. Settled(a)'
  <2> SUFFICES ASSUME NEW x \in Tids, ~Odd(round'[x]), Foremost(x)'
               PROVE  Cell(a) = Grown(a, Half(round'[x]))
    BY <1>8 DEF Settled
  <2>1. round'[x] = round[m]
    <3>1. m # t
      BY <1>1, <1>2
    <3>2. round'[x] >= round[m]
      BY <1>1, <3>1 DEF Foremost
    <3>3. round'[x] <= round[m]
      BY <1>1, <1>3
    <3> QED BY <1>1, <1>3, <3>2, <3>3
  <2>2. Foremost(m)
    BY <1>3 DEF Foremost
  <2> QED BY <1>7, <2>1, <2>2 DEF Settled
<1>11. \A u \in Tids \ {t} : Holds(u)' <=> Holds(u)
  <2> SUFFICES ASSUME NEW u \in Tids \ {t}
               PROVE  (\E x \in Tids : round'[x] > round'[u]) <=> (\E x \in Tids : round[x] > round[u])
    BY <1>1, <1>4 DEF Holds, InSection
  <2>1. ASSUME NEW x \in Tids, round'[x] > round'[u] PROVE \E y \in Tids : round[y] > round[u]
    BY <1>1, <1>3, <2>1
  <2>2. ASSUME NEW x \in Tids, round[x] > round[u] PROVE round'[x] > round'[u]
    BY <1>1, <2>2
  <2> QED BY <2>1, <2>2
<1>12. Chosen(a)'
  <2> SUFFICES ASSUME NEW u \in Tids, Holds(u)', run'[u] = "hatms"
               PROVE  Cell(a) = Grown(a, Half(round'[u]))
    BY <1>8 DEF Chosen
  <2>1. u # t
    OBVIOUS
  <2> QED BY <1>1, <1>4, <1>7, <1>11, <2>1 DEF Chosen
<1>13. Closed(a)'
  <2> SUFFICES ASSUME \A u \in Tids : ~Holds(u)' /\ ~Parked(u)', NEW x \in Tids, Odd(round'[x])
               PROVE  Cell(a) = Grown(a, Half(round'[x]) + 1)
    BY <1>8 DEF Closed
  <2>1. ~Holds(t) /\ ~Parked(t)
    <3>1. run'[t] = "exec" /\ ~ctx'[t].inAtomic
      BY DEF Holds, InSection, Parked, Ended
    <3> QED BY <1>5, <3>1 DEF Holds, InSection, Waits, Parked, Ended
  <2>2. \A u \in Tids : ~Holds(u) /\ ~Parked(u)
    BY <1>4, <1>11, <2>1 DEF Parked
  <2>3. \E y \in Tids : round'[x] = round[y]
    BY <1>1, <1>3
  <2> QED BY <1>7, <2>2, <2>3 DEF Closed
<1>14. FirstExists'
  <2> SUFFICES ASSUME NEW x \in inside', Foremost(x)'
               PROVE  \E l \in first' : round'[l] = round'[x]
    BY DEF FirstExists
  <2>1. x \in Tids \ {t} /\ x \in inside /\ round'[x] = round[x] /\ round[x] >= round[t] + 1
    BY <1>1 DEF Foremost
  <2>2. Foremost(x)
    BY <1>1, <1>3, <2>1 DEF Foremost
  <2>3. PICK l \in first : round[l] = round[x]
    BY <1>7, <2>1, <2>2 DEF FirstExists
  <2>4. l \in Tids \ {t}
    BY <1>1, <2>1, <2>3
  <2> QED BY <1>1, <2>1, <2>3, <2>4
<1>15. Shares'
  BY <1>4, <1>5, <1>7 DEF Shares, Workers, Parked, Waits, Ended
<1>16. run'[0] = "spawning" => round'[0] = 0
  BY <1>0, <1>1, <1>6, <1>7
<1> QED BY <1>9, <1>10, <1>12, <1>13, <1>14, <1>15, <1>16

\* A region with an address in it does not wrap around.
LEMMA ContainsFits ==
    ASSUME NEW a \in M!Addr, M!Contains(Region, a)
    PROVE  /\ \A i \in 0 .. Region.size - 1 : M!Sum16(Region.base, i) = Region.base + i
           /\ M!Offset(Region, a) \in 0 .. Region.size - 1
           /\ Region.base + M!Offset(Region, a) = a
           /\ ~M!CreationPanics(Region) /\ ~M!ContainsPanics(Region, a)
<1> DEFINE V == AddrSpace
           b == Region.base
           n == Region.size
<1>1. b \in Nat /\ n \in Nat /\ b < V /\ n < V /\ V \in Nat \ {0} /\ a \in Nat
  BY RegionType, SizesAssumption DEF M!Addr
<1>2. M!Offset(Region, a) \in 0 .. n - 1 /\ a >= b /\ M!Offset(Region, a) = a - b
  BY OffsetType DEF M!Contains, M!Offset
<1>3. a < (b + n) % V
  BY DEF M!Contains, M!Sum16
<1> HIDE DEF V, b, n
<1>4. b + n < V
  <2> SUFFICES ASSUME b + n >= V PROVE FALSE
    BY <1>1
  <2>1. (b + n) % V = (b + n) - V
    BY <1>1
  <2> QED BY <1>1, <1>2, <1>3, <2>1
<1>5. \A i \in 0 .. n - 1 : (b + i) % V = b + i
  BY <1>1, <1>4
<1>6. ~(b + (n - 1) >= V)
  BY <1>1, <1>4
<1> QED BY <1>1, <1>2, <1>4, <1>5, <1>6
        DEF V, b, n, M!Sum16, M!CreationPanics, M!ContainsPanics, M!Panics

\* HFORK copies the cell, HMERGE copies it back.
LEMMA CellCopied ==
    ASSUME NEW a \in M!Addr, M!Contains(Region, a), NEW cmem \in [M!Addr -> Val], NEW d \in Memory
    PROVE  /\ M!InitialData(Region, cmem)[M!Offset(Region, a)] = cmem[a]
           /\ M!WriteBack(Region, d, cmem)[a] = d[M!Offset(Region, a)]
<1> DEFINE i == M!Offset(Region, a)
<1>1. /\ i \in 0 .. Region.size - 1 /\ Region.base + i = a
      /\ \A j \in 0 .. Region.size - 1 : M!Sum16(Region.base, j) = Region.base + j
  BY ContainsFits
<1> HIDE DEF i
<1>2. M!InitialData(Region, cmem)[i] = cmem[a]
  BY <1>1 DEF M!InitialData
<1>3. DOMAIN d = 0 .. Region.size - 1
  BY DEF Memory
<1>4. \A j \in DOMAIN d : a = M!Sum16(Region.base, j) <=> j = i
  BY <1>1, <1>3, RegionType
<1>5. (CHOOSE j \in DOMAIN d : a = M!Sum16(Region.base, j)) = i
  BY <1>1, <1>3, <1>4
<1>6. M!WriteBack(Region, d, cmem)[a] = d[i]
  BY <1>1, <1>3, <1>4, <1>5 DEF M!WriteBack
<1> QED BY <1>2, <1>6 DEF i

\* In its section, the leader faces an instruction of the update or HATME.
LEMMA LeaderFaces ==
    ASSUME TypeOK, NEW a \in M!Addr, CountInv(a), InRegion, NEW t \in Tids, InSection(t),
           NEW op, At(t, op)
    PROVE  /\ ~ctx[t].skip
           /\ op \in {"LOAD", "INC", "STORE", "JMPAF", "HATME"}
           /\ op = "HATME" => Cell(a) = Grown(a, Half(round[t]) + 1)
           /\ op # "HATME" => Due(t, a) /\ Cell(a) = Grown(a, Half(round[t]))
<1>1. Leads(t, a) /\ ControlOK
  BY TypeParts DEF CountInv
<1>2. ctx[t].pc < Len(prog) /\ prog[ctx[t].pc + 1].op = op
  BY DEF At
<1>3. CASE Due(t, a) /\ Cell(a) = Grown(a, Half(round[t]))
  <2>1. op \in {"LOAD", "INC", "STORE", "JMPAF"}
    BY <1>1, <1>2, <1>3, DueFaces DEF Faces
  <2> QED BY <1>1, <1>3, <2>1 DEF Leads
<1>4. CASE Faces(t, "HATME") /\ Cell(a) = Grown(a, Half(round[t]) + 1)
  BY <1>1, <1>2, <1>4 DEF Leads, Faces
<1> QED BY <1>1, <1>3, <1>4 DEF Leads

\* An instruction of t that ends away from the barrier, with context c.
LEMMA EndCounts ==
    ASSUME TypeOK, SectionInv, PlaceInv, NEW a \in M!Addr, CountInv(a), NEW t \in Tids,
           NEW c \in Context, UNCHANGED <<data, barrier>>,
           run[t] \in {"exec", "spawning", "joining"},
           \/ Fault(t, c)
           \/ /\ Retire(t, c)
              /\ InRegion /\ c.inAtomic => Leads(t, a)'
              /\ InRegion /\ InSection(t) => c.inAtomic,
           c.sharing = ctx[t].sharing \/ (t = 0 /\ run[0] = "spawning"),
           c.cmem[a] = ctx[t].cmem[a] \/ t # 0 \/ ~InRegion
    PROVE  CountInv(a)'
<1>0. ControlOK /\ 0 \in Tids
  BY TypeParts, NAssumption DEF Tids
<1>1. /\ OthersStay(t) /\ prog' = prog /\ run'[t] \in {"exec", "exited", "failed"}
      /\ Fault(t, c) => run'[t] = "failed"
      /\ ctx'[t].inAtomic = c.inAtomic /\ ctx'[t].sharing = c.sharing /\ ctx'[t].cmem = c.cmem
  BY <1>0, RetireFrame, RetireData, FaultFrame DEF Retire, Fault
<1>2. ~Parked(t) /\ run[t] # "hatms" /\ run'[t] \notin {"hatms", "spawning"}
  BY <1>1 DEF Parked, Ended
<1>3. t # 0 => ctx'[0] = ctx[0] /\ run'[0] = run[0]
  BY <1>0, <1>1 DEF OthersStay
<1>4. InRegion' => InRegion
  BY <1>1, <1>2, <1>3 DEF InRegion
<1>5. InRegion' => ctx'[0].cmem[a] = ctx[0].cmem[a]
  BY <1>1, <1>3, <1>4
<1>6. InSection(t)' => ~Fault(t, c) /\ c.inAtomic
  BY <1>1 DEF InSection
<1>7. InRegion' /\ InSection(t) => Parked(t)' \/ InSection(t)'
  BY <1>1, <1>4 DEF InSection, Parked, Ended
<1>8. InRegion' /\ InSection(t)' => Leads(t, a)'
  BY <1>4, <1>6
<1>9. t # 0 => ctx'[t].sharing = ctx[t].sharing
  BY <1>1
<1>10. run'[0] = "spawning" => run[0] = "spawning"
  BY <1>2, <1>3
<1> QED BY <1>1, <1>2, <1>4, <1>5, <1>7, <1>8, <1>9, <1>10, CountKeeps

\* Inside a region every thread that executes has the shared memory.
LEMMA ExecutesShared ==
    ASSUME NEW a, CountInv(a), InRegion, NEW t \in Tids, run[t] = "exec"
    PROVE  ctx[t].sharing
<1>1. CASE t = 0
  BY <1>1 DEF InRegion
<1>2. CASE t # 0
  BY <1>2 DEF CountInv, Shares, Workers, Parked, Ended
<1> QED BY <1>1, <1>2

LEMMA LocalCounts ==
    ASSUME TypeOK, SectionInv, PlaceInv, NEW a \in M!Addr, M!Contains(Region, a), CountInv(a),
           NEW t \in Tids, Local(t)
    PROVE  CountInv(a)'
<1>0. ControlOK /\ SharedOK /\ ctx[t] \in Context /\ UNCHANGED <<data, barrier>>
  BY TypeParts DEF Local, shared, ControlOK
<1> DEFINE Same(c) ==
             /\ c \in Context
             /\ c.inAtomic = ctx[t].inAtomic /\ c.sharing = ctx[t].sharing
             /\ c.skip = ctx[t].skip
             /\ c.cmem[a] = ctx[t].cmem[a] \/ t # 0 \/ ~InRegion
           Next1(c) ==
             \E k \in DOMAIN prog :
               /\ Adds(prog, a, k)
               /\ \/ c.pc + 1 = k
                  \/ c.pc + 1 = k + 1 /\ c.acc = Cell(a)
                  \/ c.pc + 1 = k + 2 /\ c.acc = Incremented(Cell(a))
<1>1. ASSUME NEW c, Same(c), run[t] = "exec", InRegion => ~InSection(t),
             Fault(t, c) \/ Retire(t, c) \/ Retire(t, Advance(c))
      PROVE  CountInv(a)'
  <2>1. Same(Advance(c))
    BY <1>1, AdvanceType DEF Advance, Context
  <2>2. InRegion => ~c.inAtomic /\ ~Advance(c).inAtomic
    BY <1>1, <2>1 DEF InSection
  <2>3. CASE Fault(t, c) \/ Retire(t, c)
    BY <1>0, <1>1, <2>2, <2>3, EndCounts
  <2>4. CASE Retire(t, Advance(c))
    BY <1>0, <1>1, <2>1, <2>2, <2>4, EndCounts
  <2> QED BY <1>1, <2>3, <2>4
<1>2. ASSUME NEW c, Same(c), run[t] = "exec", Retire(t, c),
             InRegion /\ InSection(t) =>
               ~ctx[t].skip /\ Next1(c) /\ Cell(a) = Grown(a, Half(round[t]))
      PROVE  CountInv(a)'
  <2>1. ASSUME InRegion, c.inAtomic PROVE Leads(t, a)'
    <3>1. /\ prog' = prog /\ ctx'[t].pc = c.pc /\ ctx'[t].skip = c.skip /\ ctx'[t].acc = c.acc
          /\ OthersStay(t) /\ ctx'[t].cmem = c.cmem
      BY <1>0, <1>2, RetirePlace, RetireData, RetireFrame
    <3>2. InSection(t)
      BY <1>2, <2>1 DEF InSection
    <3>3. ctx'[0].cmem[a] = ctx[0].cmem[a]
      <4>1. CASE t = 0
        BY <1>2, <2>1, <3>1, <4>1
      <4>2. CASE t # 0
        BY <3>1, <4>2, NAssumption DEF OthersStay, Tids
      <4> QED BY <4>1, <4>2
    <3>4. /\ data' = data /\ round' = round
      BY <1>0 DEF barrier
    <3>5. Due(t, a)'
      BY <1>2, <2>1, <3>1, <3>2, <3>4 DEF Due, Cell
    <3>6. (Cell(a) = Grown(a, Half(round[t])))'
      BY <1>2, <2>1, <3>2, <3>3, <3>4 DEF Cell, Grown
    <3>7. ~ctx'[t].skip
      BY <1>2, <2>1, <3>1, <3>2
    <3> QED BY <3>5, <3>6, <3>7 DEF Leads
  <2>2. InRegion /\ InSection(t) => c.inAtomic
    BY <1>2 DEF InSection
  <2> QED BY <1>0, <1>2, <2>1, <2>2, EndCounts
<1>3. ASSUME NEW op, Executes(t, op), InRegion, InSection(t), op # "HATME"
      PROVE  /\ ~ctx[t].skip /\ Cell(a) = Grown(a, Half(round[t])) /\ ctx[t].sharing
             /\ op \in {"LOAD", "INC", "STORE", "JMPAF"}
             /\ \E k \in DOMAIN prog :
                  /\ Adds(prog, a, k)
                  /\ \/ op = "LOAD" /\ Arg(t) = a /\ ctx[t].pc + 1 = k
                     \/ op = "INC" /\ ctx[t].acc = Cell(a) /\ ctx[t].pc + 1 = k + 1
                     \/ op = "STORE" /\ Arg(t) = a
                     \/ op = "JMPAF" /\ k = Arg(t) + 1
  <2>1. At(t, op) /\ run[t] = "exec" /\ ~ctx[t].skip
    BY <1>3 DEF Executes, At
  <2>2. /\ Due(t, a) /\ Cell(a) = Grown(a, Half(round[t]))
        /\ op \in {"LOAD", "INC", "STORE", "JMPAF"}
    BY <1>3, <2>1, LeaderFaces
  <2>3. ctx[t].sharing
    BY <1>3, <2>1, ExecutesShared
  <2>4. prog[ctx[t].pc + 1].op = op
    BY <2>1 DEF At
  <2> QED BY <1>0, <2>1, <2>2, <2>3, <2>4, DueFaces DEF Faces
<1>4. Same(ctx[t])
  BY <1>0
<1>5. CASE Skip(t)
  <2>1. run[t] = "exec" /\ ctx[t].skip /\ Retire(t, Advance(ctx[t]))
    BY <1>5 DEF Skip, Skips
  <2>2. InRegion => ~InSection(t)
    BY <2>1 DEF CountInv, Leads
  <2> QED BY <1>1, <1>4, <2>1, <2>2
<1>6. CASE Load(t)
  <2>1. Executes(t, "LOAD") /\ run[t] = "exec" /\ Arg(t) \in M!Addr
    BY <1>0, <1>6, OperandType DEF Load, Executes, At
  <2> DEFINE v == IF ctx[t].sharing
                  THEN M!SharedLoad(Region, data, snapshot, ctx[t].cmem, Arg(t), ctx[t].inAtomic)
                  ELSE ctx[t].cmem[Arg(t)]
             c == [ctx[t] EXCEPT !.acc = v]
  <2>2. v \in Val
    BY <1>0, <2>1, SharedLoadType DEF SharedOK, Context
  <2>3. Fault(t, ctx[t]) \/ Retire(t, Advance(c))
    BY <1>6 DEF Load
  <2>4. InRegion /\ InSection(t) => Arg(t) = a /\ ctx[t].sharing /\ ctx[t].inAtomic
    BY <1>3, <2>1 DEF InSection
  <2>5. InRegion /\ InSection(t) => v = Cell(a)
    BY <2>4 DEF M!SharedLoad, Cell
  <2> HIDE DEF v
  <2>6. Same(c) /\ c.pc = ctx[t].pc /\ c.acc = v
    BY <1>0, <2>2 DEF Context
  <2> HIDE DEF c
  <2>7. Same(Advance(c)) /\ Advance(c).pc = ctx[t].pc + 1 /\ Advance(c).acc = v
    BY <2>6, AdvanceType DEF Advance, Context
  <2>8. InRegion /\ InSection(t) =>
          ~ctx[t].skip /\ Next1(Advance(c)) /\ Cell(a) = Grown(a, Half(round[t]))
    BY <1>3, <2>1, <2>5, <2>7
  <2>9. CASE Retire(t, Advance(c))
    BY <1>2, <2>1, <2>7, <2>8, <2>9
  <2>10. CASE Fault(t, ctx[t])
    BY <1>0, <1>4, <2>1, <2>10, EndCounts
  <2> QED BY <2>3, <2>9, <2>10
<1>7. CASE Store(t)
  <2>1. Executes(t, "STORE") /\ run[t] = "exec" /\ Arg(t) \in M!Addr
    BY <1>0, <1>7, OperandType DEF Store, Executes, At
  <2> DEFINE c == [ctx[t] EXCEPT !.cmem[Arg(t)] = ctx[t].acc]
  <2>2. CASE Fault(t, ctx[t])
    BY <1>0, <1>4, <2>1, <2>2, EndCounts
  <2>3. CASE ~(ctx[t].sharing /\ M!Contains(Region, Arg(t))) /\ Retire(t, Advance(c))
    <3>1. InRegion => Arg(t) # a
      BY <2>1, <2>3, ExecutesShared
    <3>2. Same(c)
      BY <1>0, <2>1, <3>1 DEF Context
    <3>3. InRegion => ~InSection(t)
      BY <1>3, <2>1, <3>1
    <3> QED BY <1>1, <2>1, <2>3, <3>2, <3>3
  <2> QED BY <1>7, <2>2, <2>3 DEF Store
<1>8. CASE Inc(t)
  <2>1. Executes(t, "INC") /\ run[t] = "exec"
    BY <1>8 DEF Inc, Executes, At
  <2> DEFINE v == Incremented(ctx[t].acc)
             c == [ctx[t] EXCEPT !.acc = v]
  <2>2. v \in Val
    BY <1>0, SizesAssumption DEF Incremented, Context, Val
  <2>3. Retire(t, Advance(c))
    BY <1>8 DEF Inc
  <2>4. InRegion /\ InSection(t) =>
          /\ ~ctx[t].skip /\ Cell(a) = Grown(a, Half(round[t]))
          /\ v = Incremented(Cell(a))
          /\ \E k \in DOMAIN prog : Adds(prog, a, k) /\ ctx[t].pc + 1 = k + 1
    BY <1>3, <2>1
  <2> HIDE DEF v
  <2>5. Same(c) /\ c.pc = ctx[t].pc /\ c.acc = v
    BY <1>0, <2>2 DEF Context
  <2> HIDE DEF c
  <2>6. Same(Advance(c)) /\ Advance(c).pc = ctx[t].pc + 1 /\ Advance(c).acc = v
    BY <2>5, AdvanceType DEF Advance, Context
  <2>7. InRegion /\ InSection(t) => Next1(Advance(c))
    <3>1. DOMAIN prog \subseteq Nat
      BY <1>0, ProgramsAssumption DEF ControlOK
    <3> QED BY <1>0, <2>4, <2>6, <3>1 DEF Context
  <2> QED BY <1>2, <2>1, <2>3, <2>4, <2>6, <2>7
<1>9. CASE Jump(t)
  <2>1. CASE JumpTaken(t) /\ Retire(t, [ctx[t] EXCEPT !.pc = Arg(t)])
    <3> DEFINE c == [ctx[t] EXCEPT !.pc = Arg(t)]
    <3>1. PICK op \in {"JMP", "JMPAF", "JTID"} : Executes(t, op)
      BY <2>1 DEF JumpTaken
    <3>2. run[t] = "exec" /\ Arg(t) \in Nat
      BY <1>0, <3>1, OperandType DEF Executes, At
    <3>3. Same(c) /\ c.pc = Arg(t)
      BY <1>0, <3>2 DEF Context
    <3> HIDE DEF c
    <3>4. InRegion /\ InSection(t) =>
            ~ctx[t].skip /\ Next1(c) /\ Cell(a) = Grown(a, Half(round[t]))
      BY <1>3, <3>1, <3>3
    <3> QED BY <1>2, <2>1, <3>2, <3>3, <3>4 DEF c
  <2>2. CASE JumpNotTaken(t) /\ Retire(t, Advance(ctx[t]))
    <3>1. run[t] = "exec"
      BY <2>2 DEF JumpNotTaken, Executes, At
    <3>2. InRegion => ~InSection(t)
      BY <1>3, <2>2 DEF JumpNotTaken, InSection
    <3> QED BY <1>1, <1>4, <2>2, <3>1, <3>2
  <2> QED BY <1>9, <2>1, <2>2 DEF Jump
<1>10. ASSUME NEW op \in {"HALT", "IDIV0", "FDIV0", "QPREP", "QOBSERVE"}, Executes(t, op)
       PROVE  run[t] = "exec" /\ (InRegion => ~InSection(t))
  BY <1>3, <1>10 DEF Executes, At
<1>11. CASE Halt(t)
  <2> DEFINE c == [ctx[t] EXCEPT !.halt = TRUE]
  <2>1. Same(c)
    BY <1>0 DEF Context
  <2> QED BY <1>1, <1>10, <1>11, <2>1 DEF Halt
<1>12. CASE IDivZero(t)
  <2> DEFINE c == [ctx[t] EXCEPT !.acc = 0, !.arith = TRUE]
  <2>1. 0 \in Val
    BY SizesAssumption DEF Val
  <2>2. Same(c)
    BY <1>0, <2>1 DEF Context
  <2> QED BY <1>1, <1>10, <1>12, <2>2 DEF IDivZero
<1>13. CASE FDivZero(t)
  BY <1>1, <1>4, <1>10, <1>13 DEF FDivZero
<1>14. CASE QPrep(t)
  <2> DEFINE c == [ctx[t] EXCEPT !.qregs = @ \cup {Arg(t)}, !.qf = TRUE]
  <2>1. Arg(t) \in QIdx
    BY <1>0, <1>14, OperandType DEF QPrep, Executes
  <2>2. Same(c)
    BY <1>0, <2>1 DEF Context
  <2> QED BY <1>1, <1>10, <1>14, <2>2 DEF QPrep
<1>15. CASE QObserve(t)
  <2> DEFINE c == [ctx[t] EXCEPT !.qregs = @ \ {Arg(t)}, !.qf = FALSE]
  <2>1. Same(c)
    BY <1>0 DEF Context
  <2>2. Fault(t, ctx[t]) \/ Retire(t, Advance(c))
    BY <1>15 DEF QObserve
  <2> QED BY <1>1, <1>4, <1>10, <1>15, <2>1, <2>2 DEF QObserve
<1> QED BY <1>5, <1>6, <1>7, <1>8, <1>9, <1>11, <1>12, <1>13, <1>14, <1>15 DEF Local

\* The leader's store makes the cell grow by one, and leads to HATME.
LEMMA StoreSharedCounts ==
    ASSUME TypeOK, SectionInv, PlaceInv, NEW a \in M!Addr, M!Contains(Region, a), CountInv(a),
           NEW t \in Tids, StoreShared(t)
    PROVE  CountInv(a)'
<1> DEFINE c == Advance(ctx[t])
<1>0. ControlOK /\ SharedOK /\ BarrierOK /\ ctx[t] \in Context /\ 0 \in Tids
  BY TypeParts, NAssumption DEF ControlOK, Tids
<1>1. /\ At(t, "STORE") /\ run[t] = "exec" /\ InSection(t) /\ Retire(t, c)
      /\ data' = [data EXCEPT ![M!Offset(Region, Arg(t))] = ctx[t].acc]
      /\ round' = round /\ inside' = inside /\ first' = first
  BY DEF StoreShared, Executes, At, InSection, barrier
<1>2. /\ c \in Context /\ c.inAtomic = ctx[t].inAtomic /\ c.sharing = ctx[t].sharing
      /\ c.pc = ctx[t].pc + 1 /\ c.skip = ctx[t].skip /\ c.cmem = ctx[t].cmem
  BY <1>0, AdvanceType DEF Advance, Context
<1> HIDE DEF c
<1>3. /\ OthersStay(t) /\ prog' = prog /\ run'[t] \in {"exec", "exited"}
      /\ ctx'[t].inAtomic = ctx[t].inAtomic /\ ctx'[t].sharing = ctx[t].sharing
      /\ ctx'[t].pc = ctx[t].pc + 1 /\ ctx'[t].skip = ctx[t].skip /\ ctx'[t].cmem = ctx[t].cmem
  BY <1>0, <1>1, <1>2, RetireFrame, RetireData, RetirePlace
<1>4. \A u \in Tids \ {t} : ctx'[u] = ctx[u] /\ run'[u] = run[u]
  BY <1>3 DEF OthersStay
<1>5. (run'[0] = "spawning" => run[0] = "spawning") /\ (InRegion' => InRegion)
  BY <1>0, <1>3, <1>4 DEF InRegion
<1> SUFFICES ASSUME InRegion'
             PROVE  /\ run'[0] = "spawning" => round'[0] = 0
                    /\ \A u \in Tids : InSection(u)' => Leads(u, a)'
                    /\ Settled(a)' /\ Chosen(a)' /\ Closed(a)' /\ FirstExists' /\ Shares'
  BY DEF CountInv
<1>6. InRegion /\ (run[0] = "spawning" => round[0] = 0) /\ FirstExists /\ Shares
  BY <1>5 DEF CountInv
<1>7. Due(t, a) /\ Cell(a) = Grown(a, Half(round[t])) /\ ~ctx[t].skip
  BY <1>1, <1>6, LeaderFaces
<1>8. PICK k \in DOMAIN prog :
        /\ Adds(prog, a, k)
        /\ Arg(t) = a /\ ctx[t].pc + 1 = k + 2 /\ ctx[t].acc = Incremented(Cell(a))
  BY <1>0, <1>1, <1>7, DueFaces DEF At, Faces
<1>9. Cell(a)' = Grown(a, Half(round[t]) + 1)
  <2>1. M!Offset(Region, a) \in DOMAIN data
    BY <1>0, OffsetType DEF SharedOK, Memory
  <2>2. Cell(a)' = ctx[t].acc
    BY <1>0, <1>1, <1>8, <2>1 DEF Cell, SharedOK, Memory
  <2>3. Half(round[t]) \in Nat
    BY <1>0, HalfGrows DEF BarrierOK
  <2> QED BY <1>7, <1>8, <2>2, <2>3, GrowsByOne
<1>10. \A n : Grown(a, n)' = Grown(a, n)
  BY <1>0, <1>3, <1>4 DEF Grown
<1>11. Faces(t, "HATME")'
  <2>1. prog \in Seq([op : STRING, arg : Nat]) /\ ctx[t].pc \in Nat
    BY <1>0, ProgramsAssumption DEF ControlOK, Context
  <2>2. /\ DOMAIN prog = 1 .. Len(prog) /\ Len(prog) \in Nat
        /\ k + 3 \in DOMAIN prog /\ prog[k + 3].op = "HATME"
    BY <1>8, <2>1 DEF Adds
  <2>3. (ctx[t].pc + 1) + 1 = k + 3
    BY <1>8, <2>1, <2>2
  <2>4. ctx[t].pc + 1 < Len(prog)
    BY <2>1, <2>2, <2>3
  <2> QED BY <1>3, <2>2, <2>3, <2>4 DEF Faces
<1>12. ASSUME NEW u \in Tids, InSection(u)' PROVE Leads(u, a)'
  <2>1. u = t
    <3>1. InSection(u)
      BY <1>1, <1>4, <1>12 DEF InSection
    <3> QED BY <1>1, <3>1 DEF SectionInv, OneHolder, Holds
  <2> QED BY <1>1, <1>3, <1>7, <1>9, <1>10, <1>11, <2>1 DEF Leads
<1>13. t \notin inside /\ Odd(round[t])
  BY <1>1 DEF InSection, SectionInv, InsideIsWaiting, Waits, PlaceInv, Placed, Parked, Ended
<1>14. Settled(a)'
  <2> SUFFICES ASSUME NEW x \in Tids, ~Odd(round[x]), Foremost(x) PROVE FALSE
    BY <1>1 DEF Settled, Foremost
  <2>1. round[x] = round[t]
    BY <1>0, <1>13, OutsideIsForemost DEF Foremost, BarrierOK
  <2> QED BY <1>13, <2>1
<1>15. Chosen(a)'
  <2> SUFFICES ASSUME NEW u \in Tids, Holds(u)', run'[u] = "hatms" PROVE FALSE
    BY DEF Chosen
  <2>1. u # t
    BY <1>3
  <2>2. Holds(u) /\ Holds(t)
    BY <1>1, <1>4, <2>1 DEF Holds, InSection
  <2> QED BY <2>1, <2>2 DEF SectionInv, OneHolder
<1>16. Closed(a)'
  <2>1. Holds(t)' \/ Parked(t)'
    BY <1>1, <1>3 DEF Holds, InSection, Parked, Ended
  <2> QED BY <2>1 DEF Closed
<1>17. FirstExists'
  BY <1>1, <1>6 DEF FirstExists, Foremost
<1>18. Shares'
  BY <1>1, <1>3, <1>4, <1>6 DEF Shares, Workers, Parked, Ended
<1> QED BY <1>1, <1>5, <1>6, <1>12, <1>14, <1>15, <1>16, <1>17, <1>18

\* HFORK: a region begins with the cells of thread 0, and nobody ahead.
LEMMA HForkCounts ==
    ASSUME TypeOK, SectionInv, PlaceInv, N > 1,
           NEW a \in M!Addr, M!Contains(Region, a), CountInv(a), NEW t \in Tids, HFork(t)
    PROVE  CountInv(a)'
<1>0. ControlOK /\ SharedOK /\ BarrierOK /\ ctx[t] \in Context /\ 0 \in Tids
  BY TypeParts, NAssumption DEF ControlOK, Tids
<1>1. ASSUME HForkRefused(t) PROVE CountInv(a)'
  BY <1>0, <1>1, EndCounts DEF HForkRefused, Executes, At, shared
<1>2. ASSUME t = 0, HForkSetup PROVE CountInv(a)'
  <2> DEFINE emptied == [ctx[0] EXCEPT !.qregs = {}]
  <2>1. emptied \in Context /\ emptied.cmem = ctx[0].cmem
    BY <1>0, <1>2 DEF Context
  <2>2. /\ Goto(0, "spawning", emptied)
        /\ data' = M!InitialData(Region, ctx[0].cmem)
        /\ round' = [u \in Tids |-> 0] /\ inside' = {} /\ first' = {}
        /\ run[0] = "exec" /\ ~ctx[0].forked
    BY <1>2, ContainsFits DEF HForkSetup, Executes, At
  <2> HIDE DEF emptied
  <2>3. /\ OthersStay(0) /\ run'[0] = "spawning" /\ ctx'[0].cmem = ctx[0].cmem
    BY <1>0, <2>1, <2>2, GotoFrame
  <2>4. \A w \in Workers : Parked(w)'
    BY <2>2, <2>3 DEF SectionInv, Alone, OthersStay, Parked, Workers
  <2>5. \A u \in Tids : ~InSection(u)' /\ run'[u] # "hatms"
    BY <2>3, <2>4 DEF InSection, Parked, Ended, Workers
  <2>6. \A u \in Tids : round'[u] = 0
    BY <2>2
  <2>7. Cell(a)' = ctx[0].cmem[a]
    BY <1>0, <1>2, <2>2, CellCopied DEF Cell, Context, SharedOK
  <2>8. Grown(a, Half(0))' = ctx[0].cmem[a]
    <3>1. ctx[0].cmem[a] \in Nat /\ ctx[0].cmem[a] < ValueSpace /\ ValueSpace \in Nat
      BY <1>0, <1>2, SizesAssumption DEF Context, Val
    <3>2. Half(0) = 0
      BY DEF Half
    <3>3. (ctx[0].cmem[a] + 0) % ValueSpace = ctx[0].cmem[a]
      BY <3>1
    <3> QED BY <2>3, <3>2, <3>3 DEF Grown
  <2>9. Settled(a)'
    BY <2>6, <2>7, <2>8 DEF Settled, Grown
  <2>10. Chosen(a)' /\ Closed(a)' /\ FirstExists' /\ Shares'
    BY <2>2, <2>4, <2>5, <2>6, OddFlips DEF Chosen, Closed, FirstExists, Shares
  <2> QED BY <1>0, <2>5, <2>6, <2>9, <2>10 DEF CountInv
<1>3. ASSUME t = 0, NEW w \in Workers, HForkSpawn(w) PROVE CountInv(a)'
  <2> DEFINE forked == [ctx[0] EXCEPT !.forked = TRUE, !.merged = FALSE,
                                      !.skip = FALSE, !.sharing = TRUE]
             clone == Advance(forked)
  <2>1. /\ run[0] = "spawning" /\ w \in Tids /\ w # 0 /\ 0 \in Tids
        /\ ctx' = [ctx EXCEPT ![w] = clone] /\ prog' = prog
        /\ run' = [run EXCEPT ![w] = IF clone.pc < Len(prog) THEN "exec" ELSE "exited"]
        /\ round' = round /\ inside' = inside /\ first' = first /\ data' = data
    BY <1>0, <1>3 DEF HForkSpawn, barrier, shared, Workers
  <2>2. ~clone.inAtomic /\ clone.sharing
    <3>1. ~ctx[0].inAtomic
      BY <2>1 DEF SectionInv, Flags
    <3>2. forked \in Context /\ forked.inAtomic = ctx[0].inAtomic
      BY <1>0, <1>3, ForkedType
    <3>3. forked.sharing
      BY <1>0, <1>3 DEF Context
    <3> HIDE DEF forked
    <3> QED BY <3>1, <3>2, <3>3, AdvanceType
  <2> HIDE DEF clone
  <2>3. /\ ctx'[w] = clone /\ run'[w] \in {"exec", "exited"}
        /\ \A u \in Tids \ {w} : ctx'[u] = ctx[u] /\ run'[u] = run[u]
    BY <1>0, <2>1 DEF ControlOK
  <2>4. InRegion /\ run'[0] = "spawning"
    BY <2>1, <2>3 DEF InRegion
  <2>5. /\ round[0] = 0
        /\ \A u \in Tids : InSection(u) => Leads(u, a)
        /\ Settled(a) /\ Chosen(a) /\ FirstExists /\ Shares
    BY <2>1, <2>4 DEF CountInv
  <2>6. 0 \notin inside
    BY <2>1 DEF SectionInv, InsideIsWaiting, Waits
  <2>7. \A u \in Tids : round[u] = 0
    BY <1>0, <2>5, <2>6, OutsideIsForemost DEF Foremost, BarrierOK
  <2>8. Cell(a)' = Cell(a) /\ \A k : Grown(a, k)' = Grown(a, k)
    BY <2>1, <2>3 DEF Cell, Grown
  <2>9. ASSUME NEW u \in Tids, InSection(u)' PROVE Leads(u, a)'
    <3>1. u # w
      BY <2>2, <2>3, <2>9 DEF InSection
    <3> QED BY <2>1, <2>3, <2>5, <2>8, <2>9, <3>1 DEF InSection, Leads, Due, Faces, Arg
  <2>10. Settled(a)'
    BY <2>1, <2>5, <2>8 DEF Settled, Foremost
  <2>11. Chosen(a)'
    <3> SUFFICES ASSUME NEW u \in Tids, Holds(u)', run'[u] = "hatms" PROVE FALSE
      BY DEF Chosen
    <3> QED BY <2>1, <2>7 DEF Holds, InSection
  <2>12. Closed(a)'
    BY <2>1, <2>7, OddFlips DEF Closed
  <2>13. FirstExists'
    BY <2>1, <2>5 DEF FirstExists, Foremost
  <2>14. Shares'
    BY <2>2, <2>3, <2>5 DEF Shares, Workers, Parked
  <2> QED BY <2>1, <2>5, <2>9, <2>10, <2>11, <2>12, <2>13, <2>14 DEF CountInv
<1>4. ASSUME t = 0, HForkSpawnFails PROVE CountInv(a)'
  BY <1>0, <1>4, EndCounts DEF HForkSpawnFails, shared
<1>5. ASSUME t = 0, HForkDone PROVE CountInv(a)'
  <2> DEFINE forked == [ctx[0] EXCEPT !.forked = TRUE, !.merged = FALSE,
                                      !.skip = FALSE, !.sharing = TRUE]
             c == Advance(forked)
  <2>1. run[0] = "spawning" /\ Retire(0, c) /\ UNCHANGED <<data, barrier>>
    BY <1>5 DEF HForkDone, shared
  <2>2. ~ctx[0].inAtomic
    BY <1>5, <2>1 DEF SectionInv, Flags
  <2>3. c \in Context /\ ~c.inAtomic /\ c.cmem = ctx[0].cmem
    <3>1. forked \in Context /\ forked.inAtomic = ctx[0].inAtomic
      BY <1>0, <1>5, ForkedType
    <3>2. forked.cmem = ctx[0].cmem
      BY <1>0, <1>5 DEF Context
    <3> HIDE DEF forked
    <3> QED BY <2>2, <3>1, <3>2, AdvanceType DEF Advance, Context
  <2> HIDE DEF c
  <2>4. ~InSection(0)
    BY <2>1 DEF InSection
  <2> QED BY <1>0, <1>5, <2>1, <2>3, <2>4, EndCounts
<1>6. ~HForkSingle(t)
  BY DEF HForkSingle
<1> QED BY <1>1, <1>2, <1>3, <1>4, <1>5, <1>6 DEF HFork

\* Nobody is in its section at an instruction that opens one, or at HMERGE.
LEMMA NotInSection ==
    ASSUME TypeOK, PlaceInv, NEW t \in Tids, NEW op \in {"HATMS", "HMERGE"}, At(t, op)
    PROVE  ~InSection(t)
<1>1. ControlOK /\ Sectioned(prog) /\ Placed(t)
  BY TypeParts DEF PlaceInv
<1>2. ~Here(t)
  BY <1>1, Discipline DEF At, Faces
<1> QED BY <1>1, <1>2 DEF Placed, InSection

\* HMERGE: thread 0 takes the memory home and leaves the region.
LEMMA MergeCounts ==
    ASSUME TypeOK, SectionInv, PlaceInv, N > 1,
           NEW a \in M!Addr, M!Contains(Region, a), CountInv(a), NEW t \in Tids, Merge(t)
    PROVE  CountInv(a)'
<1>0. ControlOK /\ SharedOK /\ ForkOK /\ ctx[t] \in Context /\ 0 \in Tids
  BY TypeParts, NAssumption DEF ControlOK, Tids
<1>1. ASSUME HMerge(t) PROVE CountInv(a)'
  <2> DEFINE c == MergeFlags(ctx[t])
  <2>1. run[t] = "exec" /\ ~InSection(t) /\ UNCHANGED <<data, barrier>>
    BY <1>1, NotInSection DEF HMerge, Executes, At, shared
  <2>2. c \in Context /\ ~c.inAtomic /\ c.cmem = ctx[t].cmem /\ c.sharing = ctx[t].sharing
    BY <1>0 DEF MergeFlags, Context
  <2>3. /\ Advance(c) \in Context /\ ~Advance(c).inAtomic
        /\ Advance(c).cmem = c.cmem /\ Advance(c).sharing = c.sharing
    BY <2>2, AdvanceType DEF Advance, Context
  <2>4. Fault(t, ctx[t]) \/ Fault(t, c) \/ Retire(t, Advance(c)) \/ (t = 0 /\ Goto(t, "joining", c))
    BY <1>1 DEF HMerge
  <2> HIDE DEF c
  <2>5. CASE Fault(t, ctx[t]) \/ Fault(t, c)
    BY <1>0, <2>1, <2>2, <2>5, EndCounts
  <2>6. CASE Retire(t, Advance(c))
    BY <2>1, <2>2, <2>3, <2>6, EndCounts
  <2>7. CASE t = 0 /\ Goto(t, "joining", c)
    <3>1. OthersStay(t) /\ run'[t] = "joining" /\ ctx'[t] = c /\ prog' = prog
      BY <1>0, <2>2, <2>7, GotoFrame DEF Goto
    <3>2. ~InSection(t)' /\ (InRegion' => InRegion /\ ctx'[0].cmem[a] = ctx[0].cmem[a])
      BY <2>2, <2>7, <3>1 DEF InSection, InRegion
    <3>3. ~Parked(t)
      BY <2>1 DEF Parked, Ended
    <3> QED BY <2>1, <2>7, <3>1, <3>2, <3>3, CountKeeps
  <2> QED BY <2>4, <2>5, <2>6, <2>7
<1>2. ASSUME t = 0, HMergeJoined PROVE CountInv(a)'
  <2> DEFINE c == Restored(ctx[0])
  <2>1. run[0] = "joining" /\ UNCHANGED <<data, barrier>>
    BY <1>2 DEF HMergeJoined, shared
  <2>2. CASE JoinError
    <3>1. Fault(0, ctx[0])
      BY <1>2, <2>2 DEF HMergeJoined
    <3> QED BY <1>0, <1>2, <2>1, <3>1, EndCounts
  <2>3. CASE ~JoinError
    <3>1. Retire(0, Advance(c))
      BY <1>2, <2>3 DEF HMergeJoined
    <3>2. M!WriteBack(Region, data, ctx[0].cmem) \in [M!Addr -> Val]
      BY <1>0, <1>2, WriteBackType DEF SharedOK, Context
    <3>3. c \in Context /\ ~c.sharing
      BY <1>0, <1>2, <3>2 DEF Restored, Context, ForkOK
    <3> HIDE DEF c
    <3>4. Advance(c) \in Context /\ ~Advance(c).sharing
      BY <3>3, AdvanceType
    <3>5. ~ctx'[0].sharing /\ run'[0] \in {"exec", "exited"}
      BY <1>0, <3>1, <3>4, RetireFrame
    <3> QED BY <3>5 DEF CountInv, InRegion
  <2> QED BY <2>2, <2>3
<1> QED BY <1>1, <1>2 DEF Merge

\* HATMS.
LEMMA HAtmSCounts ==
    ASSUME TypeOK, SectionInv, PlaceInv, N > 1, NEW a \in M!Addr, Counting(prog, a),
           CountInv(a), NEW t \in Tids, HAtmS(t)
    PROVE  CountInv(a)'
<1>0. ControlOK /\ BarrierOK /\ ctx[t] \in Context
  BY TypeParts DEF ControlOK
<1>1. CASE HAtmSAlone(t)
  <2>1. Fault(t, ctx[t]) /\ run[t] = "exec" /\ UNCHANGED <<data, barrier>>
    BY <1>1 DEF HAtmSAlone, Executes, At, shared
  <2> QED BY <1>0, <2>1, EndCounts
<1>2. ASSUME NEW leader \in BOOLEAN, Elected(t, leader)
      PROVE  /\ OthersStay(t) /\ prog' = prog /\ run'[t] \in {"exec", "exited"}
             /\ ctx'[t].inAtomic = leader /\ ctx'[t].skip = ~leader
             /\ ctx'[t].pc = ctx[t].pc + 1
             /\ ctx'[t].sharing = ctx[t].sharing /\ ctx'[t].cmem = ctx[t].cmem
  <2> DEFINE c == [ctx[t] EXCEPT !.inAtomic = leader, !.skip = ~leader]
  <2>1. /\ c \in Context /\ c.inAtomic = leader /\ c.skip = ~leader /\ c.pc = ctx[t].pc
        /\ c.sharing = ctx[t].sharing /\ c.cmem = ctx[t].cmem
    BY <1>0 DEF Context
  <2>2. Retire(t, Advance(c))
    BY <1>2 DEF Elected
  <2> HIDE DEF c
  <2>3. /\ Advance(c) \in Context /\ Advance(c).inAtomic = leader /\ Advance(c).skip = ~leader
        /\ Advance(c).pc = c.pc + 1
        /\ Advance(c).sharing = c.sharing /\ Advance(c).cmem = c.cmem
    BY <2>1, AdvanceType DEF Advance, Context
  <2> QED BY <1>0, <2>1, <2>2, <2>3, RetireFrame, RetireData, RetirePlace
<1>3. CASE HAtmSArrive(t)
  <2>1. run[t] = "exec" /\ ~InSection(t) /\ data' = data /\ ~Parked(t)
    BY <1>3, NotInSection DEF HAtmSArrive, Executes, At, shared, Parked, Ended
  <2>2. CASE R!Enter(t) /\ Goto(t, "hatms", ctx[t])
    <3>1. OthersStay(t) /\ run'[t] = "hatms" /\ ctx'[t] = ctx[t] /\ prog' = prog
      BY <1>0, <2>2, GotoFrame DEF Goto
    <3> QED BY <2>1, <2>2, <3>1, EnterCounts
  <2>3. CASE R!Pass(t) /\ Elected(t, verdict'[t])
    <3>1. verdict'[t] = FALSE
      <4>1. Tids # {t}
        BY NAssumption DEF Tids
      <4> QED BY <1>0, <2>3, <4>1 DEF R!Pass, BarrierOK
    <3>2. Elected(t, FALSE)
      BY <2>3, <3>1
    <3> QED BY <1>2, <2>1, <2>3, <3>2, PassCounts
  <2> QED BY <1>3, <2>2, <2>3 DEF HAtmSArrive
<1>4. CASE HAtmSReturn(t)
  <2>1. run[t] = "hatms" /\ R!Leave(t) /\ Elected(t, verdict'[t]) /\ data' = data
    BY <1>4 DEF HAtmSReturn, shared
  <2>2. verdict'[t] = (t \in first)
    BY <1>0, <2>1 DEF R!Leave, BarrierOK
  <2>3. /\ OthersStay(t) /\ prog' = prog /\ run'[t] \in {"exec", "exited"}
        /\ ctx'[t].inAtomic = (t \in first) /\ ctx'[t].skip = (t \notin first)
        /\ ctx'[t].pc = ctx[t].pc + 1
        /\ ctx'[t].sharing = ctx[t].sharing /\ ctx'[t].cmem = ctx[t].cmem
    <3> DEFINE leader == verdict'[t]
    <3>1. leader \in BOOLEAN /\ Elected(t, leader)
      BY <2>1, <2>2
    <3>2. leader = (t \in first)
      BY <2>2
    <3> HIDE DEF leader
    <3>3. /\ ctx'[t].inAtomic = leader /\ ctx'[t].skip = ~leader
          /\ OthersStay(t) /\ prog' = prog /\ run'[t] \in {"exec", "exited"}
          /\ ctx'[t].pc = ctx[t].pc + 1
          /\ ctx'[t].sharing = ctx[t].sharing /\ ctx'[t].cmem = ctx[t].cmem
      BY <1>2, <3>1
    <3> QED BY <3>2, <3>3
  <2>4. Faces(t, "HATMS")
    BY <2>1 DEF PlaceInv, Placed
  <2>5. Due(t, a)'
    <3> DEFINE i == ctx[t].pc + 1
    <3>1. prog \in Seq([op : STRING, arg : Nat]) /\ ctx[t].pc \in Nat
      BY <1>0, ProgramsAssumption DEF ControlOK, Context
    <3>2. i \in DOMAIN prog /\ prog[i].op = "HATMS"
      BY <2>4, <3>1 DEF Faces
    <3>3. \/ Adds(prog, a, i + 1)
          \/ /\ i + 1 \in DOMAIN prog /\ prog[i + 1].op = "JMPAF"
             /\ Adds(prog, a, prog[i + 1].arg + 1)
      BY <3>2 DEF Counting
    <3>4. ctx'[t].pc = i
      BY <2>3
    <3> HIDE DEF i
    <3>5. CASE Adds(prog, a, i + 1)
      <4>1. i + 1 \in DOMAIN prog
        BY <3>5 DEF Adds
      <4> QED BY <2>3, <3>4, <3>5, <4>1 DEF Due
    <3>6. CASE /\ i + 1 \in DOMAIN prog /\ prog[i + 1].op = "JMPAF"
               /\ Adds(prog, a, prog[i + 1].arg + 1)
      <4>1. prog[i + 1].arg + 1 \in DOMAIN prog
        BY <3>6 DEF Adds
      <4>2. Faces(t, "JMPAF")' /\ Arg(t)' = prog[i + 1].arg
        <5>1. i < Len(prog)
          BY <3>1, <3>2, <3>6
        <5> QED BY <2>3, <3>4, <3>6, <5>1 DEF Faces, Arg
      <4> QED BY <2>3, <3>6, <4>1, <4>2 DEF Due
    <3> QED BY <3>3, <3>5, <3>6
  <2>6. InSection(t)' => ~ctx'[t].skip
    BY <2>3 DEF InSection
  <2> QED BY <2>1, <2>3, <2>5, <2>6, LeaveCounts
<1> QED BY <1>1, <1>3, <1>4 DEF HAtmS

\* HATME.
LEMMA HAtmECounts ==
    ASSUME TypeOK, SectionInv, PlaceInv, N > 1, NEW a \in M!Addr, CountInv(a),
           NEW t \in Tids, HAtmE(t)
    PROVE  CountInv(a)'
<1>0. ControlOK /\ BarrierOK /\ ctx[t] \in Context /\ 0 \in Tids
  BY TypeParts, NAssumption DEF ControlOK, Tids
<1> DEFINE closed == [ctx[t] EXCEPT !.inAtomic = FALSE, !.skip = FALSE]
           c == [ctx[t] EXCEPT !.skip = FALSE]
<1>1. /\ closed \in Context /\ ~closed.inAtomic
      /\ closed.cmem = ctx[t].cmem /\ closed.sharing = ctx[t].sharing
  BY <1>0 DEF Context
<1>2. /\ c \in Context /\ c.inAtomic = ctx[t].inAtomic
      /\ c.cmem = ctx[t].cmem /\ c.sharing = ctx[t].sharing
  BY <1>0 DEF Context
<1> HIDE DEF closed, c
<1>3. CASE HAtmEAlone(t)
  <2>1. Fault(t, c) /\ run[t] = "exec" /\ UNCHANGED <<data, barrier>>
    BY <1>3 DEF HAtmEAlone, At, shared, c
  <2> QED BY <1>2, <2>1, EndCounts
<1>4. CASE HAtmECommit(t)
  <2>1. /\ At(t, "HATME") /\ run[t] = "exec" /\ Goto(t, "committed", closed)
        /\ UNCHANGED <<data, barrier>>
    BY <1>4 DEF HAtmECommit, At, closed
  <2>2. OthersStay(t) /\ run'[t] = "committed" /\ ctx'[t] = closed /\ prog' = prog
    BY <1>0, <1>1, <2>1, GotoFrame DEF Goto
  <2>3. t # 0 => ctx'[0] = ctx[0] /\ run'[0] = run[0]
    BY <1>0, <2>2 DEF OthersStay
  <2>4. InRegion' => InRegion /\ ctx'[0].cmem[a] = ctx[0].cmem[a]
    BY <1>1, <2>2, <2>3 DEF InRegion
  <2>5. ~InSection(t)' /\ ~Parked(t)
    BY <1>1, <2>1, <2>2 DEF InSection, Parked, Ended
  <2>6. InRegion /\ InSection(t) => Cell(a) = Grown(a, Half(round[t]) + 1)
    BY <2>1, LeaderFaces
  <2>7. run'[0] = "spawning" => run[0] = "spawning"
    BY <2>2, <2>3
  <2>8. ctx'[t].sharing = ctx[t].sharing
    BY <1>1, <2>2
  <2> QED BY <2>1, <2>2, <2>4, <2>5, <2>6, <2>7, <2>8, CountKeeps
<1>5. CASE HAtmEArrive(t)
  <2>1. /\ ~InSection(t) /\ ~Parked(t) /\ run[t] # "spawning" /\ data' = data
        /\ ~ctx[t].inAtomic
    BY <1>5 DEF HAtmEArrive, InSection, At, shared, Parked, Ended, SectionInv, Flags
  <2>2. CASE R!Enter(t) /\ Goto(t, "hatme", c)
    <3>1. OthersStay(t) /\ run'[t] = "hatme" /\ ctx'[t] = c /\ prog' = prog
      BY <1>0, <1>2, <2>2, GotoFrame DEF Goto
    <3> QED BY <1>2, <2>1, <2>2, <3>1, EnterCounts
  <2>3. CASE R!Pass(t) /\ Retire(t, Advance(c))
    <3>1. /\ Advance(c) \in Context /\ ~Advance(c).inAtomic
          /\ Advance(c).cmem = c.cmem /\ Advance(c).sharing = c.sharing
      BY <1>2, <2>1, AdvanceType DEF Advance, Context
    <3>2. /\ OthersStay(t) /\ run'[t] \in {"exec", "exited"} /\ ~ctx'[t].inAtomic /\ prog' = prog
          /\ ctx'[t].cmem = ctx[t].cmem /\ ctx'[t].sharing = ctx[t].sharing
      BY <1>0, <1>2, <2>3, <3>1, RetireFrame, RetireData, RetirePlace
    <3> QED BY <2>1, <2>3, <3>2, PassCounts
  <2> QED BY <1>5, <2>2, <2>3 DEF HAtmEArrive, Close, c
<1>6. CASE HAtmEReturn(t)
  <2>1. run[t] = "hatme" /\ R!Leave(t) /\ Retire(t, Advance(ctx[t])) /\ data' = data
    BY <1>6 DEF HAtmEReturn, shared
  <2>2. ~ctx[t].inAtomic
    BY <2>1 DEF SectionInv, Flags
  <2>3. /\ Advance(ctx[t]) \in Context /\ ~Advance(ctx[t]).inAtomic
        /\ Advance(ctx[t]).cmem = ctx[t].cmem /\ Advance(ctx[t]).sharing = ctx[t].sharing
    BY <1>0, <2>2, AdvanceType DEF Advance, Context
  <2>4. /\ OthersStay(t) /\ run'[t] \in {"exec", "exited"} /\ ~ctx'[t].inAtomic /\ prog' = prog
        /\ ctx'[t].cmem = ctx[t].cmem /\ ctx'[t].sharing = ctx[t].sharing
    BY <1>0, <2>1, <2>3, RetireFrame, RetireData, RetirePlace
  <2>5. ~InSection(t)'
    BY <2>4 DEF InSection
  <2> QED BY <2>1, <2>4, <2>5, LeaveCounts
<1> QED BY <1>3, <1>4, <1>5, <1>6 DEF HAtmE

\* A step keeps the count.
LEMMA CountStep ==
    ASSUME TypeOK, SectionInv, PlaceInv, N > 1, NEW a \in M!Addr, M!Contains(Region, a),
           Counting(prog, a), CountInv(a), [Next]_vars
    PROVE  CountInv(a)'
<1>1. ASSUME NEW t \in Tids, Step(t) PROVE CountInv(a)'
  BY <1>1, LocalCounts, StoreSharedCounts, HForkCounts, HAtmSCounts, HAtmECounts, MergeCounts
     DEF Step
<1>2. CASE UNCHANGED vars
  <2>1. /\ prog' = prog /\ ctx' = ctx /\ run' = run /\ data' = data
        /\ round' = round /\ inside' = inside /\ first' = first
    BY <1>2 DEF vars, shared, barrier
  <2> QED BY <2>1 DEF CountInv, InRegion, InSection, Leads, Due, Faces, Arg, Cell, Grown,
          Settled, Foremost, Chosen, Holds, Closed, Parked, FirstExists, Shares
<1> QED BY <1>1, <1>2 DEF Next, Done

-----------------------------------------------------------------------------
\* No instruction changes the program.
LEMMA ProgramStays == ASSUME [Next]_vars PROVE prog' = prog
<1>1. ASSUME NEW t \in Tids, NEW c, NEW place, Retire(t, c) \/ Fault(t, c) \/ Goto(t, place, c)
      PROVE  prog' = prog
  BY <1>1 DEF Retire, Fault, Goto
<1>2. ASSUME NEW t \in Tids, Step(t) PROVE prog' = prog
  <2>1. CASE Local(t) \/ StoreShared(t)
    BY <1>1, <2>1 DEF Local, StoreShared, Skip, Load, Store, Inc, Jump, Halt, IDivZero,
       FDivZero, QPrep, QObserve
  <2>2. CASE HFork(t) \/ Merge(t)
    BY <1>1, <2>2 DEF HFork, HForkRefused, HForkSingle, HForkSetup, HForkSpawn,
       HForkSpawnFails, HForkDone, Merge, HMerge, HMergeJoined, Retire, Fault, Goto
  <2>3. CASE HAtmS(t)
    BY <1>1, <2>3 DEF HAtmS, HAtmSAlone, HAtmSArrive, HAtmSReturn, Elected
  <2>4. CASE HAtmE(t)
    BY <1>1, <2>4 DEF HAtmE, HAtmEAlone, HAtmECommit, HAtmEArrive, HAtmEReturn, Close
  <2> QED BY <1>2, <2>1, <2>2, <2>3, <2>4 DEF Step
<1>3. CASE UNCHANGED vars
  BY <1>3 DEF vars
<1> QED BY <1>2, <1>3 DEF Next, Done

\* Thread 0 joins with the shared memory in its hands, and only with workers to join.
JoinInv ==
    /\ N > 1 /\ ctx[0].forked => ctx[0].sharing
    /\ run[0] = "joining" => N > 1 /\ ctx[0].sharing /\ ~ctx[0].forked

\* A single thread has nobody to join.
LEMMA NobodyToJoin ==
    ASSUME TypeOK, ~(N > 1), run[0] # "joining", Step(0)
    PROVE  run'[0] # "joining"
<1>0. ControlOK /\ N = 1 /\ 0 \in Tids /\ Workers = {}
  BY TypeParts, NAssumption DEF Tids, Workers
<1>1. ASSUME NEW c, NEW place, place # "joining",
             Retire(0, c) \/ Fault(0, c) \/ Goto(0, place, c)
      PROVE  run'[0] # "joining"
  BY <1>0, <1>1 DEF Retire, Fault, Goto, ControlOK
<1>2. CASE Local(0) \/ StoreShared(0)
  BY <1>1, <1>2 DEF Local, StoreShared, Skip, Load, Store, Inc, Jump, Halt, IDivZero,
     FDivZero, QPrep, QObserve
<1>3. CASE HFork(0)
  BY <1>0, <1>1, <1>3 DEF HFork, HForkRefused, HForkSingle, HForkSetup, HForkSpawnFails, HForkDone
<1>4. CASE Merge(0)
  BY <1>0, <1>1, <1>4 DEF Merge, HMerge, HMergeJoined
<1>5. CASE HAtmS(0)
  BY <1>1, <1>5 DEF HAtmS, HAtmSAlone, HAtmSArrive, HAtmSReturn, Elected
<1>6. CASE HAtmE(0)
  BY <1>1, <1>6 DEF HAtmE, HAtmEAlone, HAtmECommit, HAtmEArrive, HAtmEReturn, Close
<1> QED BY <1>2, <1>3, <1>4, <1>5, <1>6 DEF Step

LEMMA JoinStep == ASSUME TypeOK, JoinInv, [Next]_vars PROVE JoinInv'
<1>0. ControlOK /\ SharedOK /\ ForkOK /\ 0 \in Tids /\ ctx[0] \in Context /\ 0 \notin Workers
  BY TypeParts, NAssumption DEF ControlOK, Tids, Workers
<1>1. CASE UNCHANGED vars
  BY <1>1 DEF vars, JoinInv
<1>2. ASSUME NEW t \in Workers, Step(t) PROVE JoinInv'
  <2>1. ctx'[0] = ctx[0] /\ run'[0] = run[0]
    BY <1>0, <1>2, WorkerFrame DEF OthersStay, Workers
  <2> QED BY <2>1 DEF JoinInv
<1>3. ASSUME N > 1, Step(0) PROVE JoinInv'
  <2>1. CASE Local(0) \/ StoreShared(0) \/ HForkRefused(0) \/ HAtmS(0) \/ HAtmE(0)
    <3>1. SameRegion(ctx'[0]) /\ run'[0] # "joining"
      BY <1>0, <1>3, <2>1, MainFrame
    <3> QED BY <3>1 DEF JoinInv, SameRegion
  <2>2. CASE HForkSetup
    <3> DEFINE c == [ctx[0] EXCEPT !.qregs = {}]
    <3>1. c \in Context /\ c.forked = ctx[0].forked /\ c.sharing = ctx[0].sharing
      BY <1>0 DEF Context
    <3>2. Fault(0, c) \/ Goto(0, "spawning", c)
      BY <2>2 DEF HForkSetup
    <3> HIDE DEF c
    <3>3. ctx'[0] = c /\ run'[0] # "joining"
      BY <1>0, <3>1, <3>2, FaultFrame, GotoFrame
    <3> QED BY <3>1, <3>3 DEF JoinInv
  <2>3. ASSUME NEW w \in Workers, HForkSpawn(w) PROVE JoinInv'
    <3>1. ctx'[0] = ctx[0] /\ run'[0] = run[0]
      BY <1>0, <2>3 DEF HForkSpawn, ControlOK, Workers
    <3> QED BY <3>1 DEF JoinInv
  <2>4. CASE HForkSpawnFails
    <3>1. ctx'[0] = ctx[0] /\ run'[0] = "failed"
      BY <1>0, <2>4, FaultFrame DEF HForkSpawnFails
    <3> QED BY <3>1 DEF JoinInv
  <2>5. CASE HForkDone
    <3> DEFINE c == [ctx[0] EXCEPT !.forked = TRUE, !.merged = FALSE,
                                   !.skip = FALSE, !.sharing = TRUE]
    <3>1. c \in Context /\ c.sharing
      BY <1>0 DEF Context
    <3>2. Retire(0, Advance(c))
      BY <2>5 DEF HForkDone
    <3> HIDE DEF c
    <3>3. Advance(c) \in Context /\ Advance(c).sharing
      BY <3>1, AdvanceType
    <3>4. ctx'[0].sharing /\ run'[0] # "joining"
      BY <1>0, <3>2, <3>3, RetireFrame
    <3> QED BY <3>4 DEF JoinInv
  <2>6. CASE HMerge(0)
    <3> DEFINE c == MergeFlags(ctx[0])
    <3>1. c \in Context /\ ~c.forked /\ c.sharing = ctx[0].sharing
      BY <1>0 DEF MergeFlags, Context
    <3>2. \/ Fault(0, ctx[0]) \/ Fault(0, c)
          \/ ctx[0].forked /\ Goto(0, "joining", c)
      BY <1>3, <2>6 DEF HMerge
    <3> HIDE DEF c
    <3>3. \/ ctx'[0] = ctx[0] /\ run'[0] = "failed"
          \/ ctx'[0] = c /\ run'[0] = "failed"
          \/ ctx[0].forked /\ ctx'[0] = c
      BY <1>0, <3>1, <3>2, FaultFrame, GotoFrame
    <3> QED BY <1>3, <3>1, <3>3 DEF JoinInv
  <2>7. CASE HMergeJoined
    <3> DEFINE c == Restored(ctx[0])
    <3>1. run[0] = "joining" /\ ~ctx[0].forked
      BY <2>7 DEF HMergeJoined, JoinInv
    <3>2. CASE JoinError
      <4>1. ctx'[0] = ctx[0] /\ run'[0] = "failed"
        BY <1>0, <2>7, <3>2, FaultFrame DEF HMergeJoined
      <4> QED BY <4>1 DEF JoinInv
    <3>3. CASE ~JoinError
      <4>1. M!WriteBack(Region, data, ctx[0].cmem) \in [M!Addr -> Val]
        BY <1>0, WriteBackType DEF SharedOK, Context
      <4>2. c \in Context /\ ~c.forked
        BY <1>0, <3>1, <4>1 DEF Restored, Context, ForkOK
      <4>3. Retire(0, Advance(c))
        BY <2>7, <3>3 DEF HMergeJoined
      <4> HIDE DEF c
      <4>4. Advance(c) \in Context /\ ~Advance(c).forked
        BY <4>2, AdvanceType
      <4>5. ~ctx'[0].forked /\ run'[0] # "joining"
        BY <1>0, <4>3, <4>4, RetireFrame
      <4> QED BY <4>5 DEF JoinInv
    <3> QED BY <3>2, <3>3
  <2> QED BY <1>3, <2>1, <2>2, <2>3, <2>4, <2>5, <2>6, <2>7 DEF Step, HFork, HForkSingle, Merge
<1>4. ASSUME ~(N > 1), Step(0) PROVE JoinInv'
  BY <1>4, NobodyToJoin DEF JoinInv
<1>5. \A t \in Tids : t = 0 \/ t \in Workers
  BY DEF Workers
<1> QED BY <1>1, <1>2, <1>3, <1>4, <1>5 DEF Next, Done

\* The only way out of the join, other than an error.
LEMMA JoinEnds ==
    ASSUME TypeOK, JoinInv, [Next]_vars, run[0] = "joining", run'[0] \in {"exec", "exited"}
    PROVE  HMergeJoined /\ Retire(0, Advance(Restored(ctx[0])))
<1>0. ControlOK /\ ForkOK /\ 0 \in Tids /\ ctx[0] \in Context /\ 0 \notin Workers /\ N > 1
  BY TypeParts, NAssumption DEF ControlOK, Tids, Workers, JoinInv
<1>1. ~(UNCHANGED vars)
  BY DEF vars
<1>2. PICK t \in Tids : Step(t)
  BY <1>1 DEF Next, Done
<1>3. t = 0
  <2> SUFFICES ASSUME t \in Workers PROVE FALSE
    BY DEF Workers
  <2>1. run'[0] = run[0]
    BY <1>0, <1>2, WorkerFrame DEF OthersStay, Workers
  <2> QED BY <2>1
<1>4. ~(Local(0) \/ StoreShared(0) \/ HForkRefused(0) \/ HAtmS(0) \/ HAtmE(0))
  BY <1>0, MainFrame DEF Running
<1>5. ~HFork(0) /\ ~HMerge(0)
  BY <1>4 DEF HFork, HForkSingle, HForkSetup, HForkSpawn, HForkSpawnFails, HForkDone, HMerge,
     Executes, At
<1>6. HMergeJoined
  BY <1>2, <1>3, <1>4, <1>5 DEF Step, Merge
<1>7. ~JoinError
  BY <1>0, <1>6, FaultFrame DEF HMergeJoined
<1> QED BY <1>6, <1>7 DEF HMergeJoined

\* What thread 0 takes home.
LEMMA TakenHome ==
    ASSUME TypeOK, SectionInv, PlaceInv, JoinInv, NEW a \in M!Addr, M!Contains(Region, a),
           CountInv(a), run[0] = "joining", Retire(0, Advance(Restored(ctx[0])))
    PROVE  ctx'[0].cmem[a] = Grown(a, Half(round[0]))
<1>0. /\ ControlOK /\ SharedOK /\ ForkOK /\ BarrierOK /\ 0 \in Tids /\ ctx[0] \in Context
      /\ ctx[0].cmem \in [M!Addr -> Val]
  BY TypeParts, NAssumption DEF ControlOK, Tids, Context
<1> DEFINE c == Restored(ctx[0])
<1>1. M!WriteBack(Region, data, ctx[0].cmem) \in [M!Addr -> Val]
  BY <1>0, WriteBackType DEF SharedOK
<1>2. c \in Context /\ c.cmem = M!WriteBack(Region, data, ctx[0].cmem)
  BY <1>0, <1>1 DEF Restored, Context, ForkOK
<1> HIDE DEF c
<1>3. Advance(c) \in Context /\ Advance(c).cmem = c.cmem
  BY <1>2, AdvanceType DEF Advance, Context
<1>4. ctx'[0].cmem = M!WriteBack(Region, data, ctx[0].cmem)
  BY <1>0, <1>2, <1>3, RetireData DEF c
<1>5. ctx'[0].cmem[a] = Cell(a)
  BY <1>0, <1>4, CellCopied DEF Cell, SharedOK, Memory
<1>6. ~Odd(round[0])
  <2>1. Faces(0, "HMERGE") /\ (Odd(round[0]) <=> Here(0))
    BY <1>0 DEF PlaceInv, Placed, Parked, Ended
  <2> QED BY <1>0, <2>1, Discipline DEF PlaceInv
<1>7. Foremost(0)
  BY <1>0, OutsideIsForemost DEF SectionInv, InsideIsWaiting, Waits
<1>8. Settled(a)
  BY DEF CountInv, InRegion, JoinInv
<1> QED BY <1>0, <1>5, <1>6, <1>7, <1>8 DEF Settled

\* What thread 0 has lived through, for each counter of the program.
RegionInv ==
    /\ JoinInv
    /\ \A a \in M!Addr : N > 1 /\ Counting(prog, a) /\ M!Contains(Region, a)
                           => PlaceInv /\ CountInv(a)

\* The memory thread 0 takes home holds every update of the region, each once: for every
\* program, region and number of threads, if each section of the program adds one to a
\* shared cell, the cell comes home with as many more as thread 0 went through sections.
THEOREM UpdatesAreNotLost == Spec => NoUpdateLost
<1>1. Init => RegionInv
  <2> SUFFICES ASSUME Init PROVE RegionInv
    OBVIOUS
  <2>1. 0 \in Tids
    BY NAssumption DEF Tids
  <2>2. run[0] = "exec" /\ ~ctx[0].forked /\ ~ctx[0].sharing
    BY <2>1 DEF Init, NewContext
  <2>3. ASSUME NEW a, Counting(prog, a) PROVE PlaceInv /\ CountInv(a)
    BY <2>2, <2>3, PlaceInit DEF Counting, CountInv, InRegion
  <2> QED BY <2>2, <2>3 DEF RegionInv, JoinInv
<1>2. TypeOK /\ SectionInv /\ RegionInv /\ [Next]_vars => RegionInv'
  <2> SUFFICES ASSUME TypeOK, SectionInv, RegionInv, [Next]_vars PROVE RegionInv'
    OBVIOUS
  <2>1. JoinInv'
    BY JoinStep DEF RegionInv
  <2>2. ASSUME NEW a \in M!Addr, N > 1, Counting(prog, a)', M!Contains(Region, a)
        PROVE  PlaceInv' /\ CountInv(a)'
    <3>1. Counting(prog, a)
      BY <2>2, ProgramStays
    <3>2. PlaceInv /\ CountInv(a)
      BY <2>2, <3>1 DEF RegionInv
    <3> QED BY <2>2, <3>1, <3>2, PlaceStep, CountStep
  <2> QED BY <2>1, <2>2 DEF RegionInv
<1>3. TypeOK /\ SectionInv /\ RegionInv /\ [Next]_vars =>
          [run[0] = "joining" /\ run'[0] \in {"exec", "exited"}
             => \A a \in M!Addr : Counting(prog, a) /\ M!Contains(Region, a) =>
                  ctx'[0].cmem[a] = (ctx[0].cmem[a] + round[0] \div 2) % ValueSpace]_vars
  <2> SUFFICES ASSUME TypeOK, SectionInv, RegionInv, [Next]_vars,
                      run[0] = "joining", run'[0] \in {"exec", "exited"},
                      NEW a \in M!Addr, Counting(prog, a), M!Contains(Region, a)
               PROVE  ctx'[0].cmem[a] = (ctx[0].cmem[a] + round[0] \div 2) % ValueSpace
    OBVIOUS
  <2>1. JoinInv /\ N > 1
    BY DEF RegionInv, JoinInv
  <2>2. PlaceInv /\ CountInv(a)
    BY <2>1 DEF RegionInv
  <2>3. Retire(0, Advance(Restored(ctx[0])))
    BY <2>1, JoinEnds
  <2>4. ctx'[0].cmem[a] = Grown(a, Half(round[0]))
    BY <2>1, <2>2, <2>3, TakenHome
  <2> QED BY <2>4 DEF Grown, Half
<1> QED BY <1>1, <1>2, <1>3, SpmdTypeCorrect, SectionInvariant, PTL DEF Spec, NoUpdateLost

-----------------------------------------------------------------------------
(***************************************************************************)
(* ThreadBarrier, for every finite set of callers and every number of      *)
(* generations.  The heart is LastArriver: when the counter reaches        *)
(* thread_count, everybody else is gathering in this generation, so nobody *)
(* is still on the way out of the previous one.  Everything else (one      *)
(* leader per generation, the single resolved_leader cell being safe, the  *)
(* refinement of the Rendezvous that Spmd's threads meet at) follows.      *)
(***************************************************************************)

\* The inductive invariant.  BarrierTypeOK alone says nothing about the counter; the
\* counter is meaningful only together with the lag of the stragglers, and a
\* leader is unique only if the elected thread is one of those gathering.
BarrierInv ==
    /\ BarrierTypeOK
    /\ CountExact
    /\ ElectedWaits
    /\ NoLostWakeup
    /\ OneLeader

-----------------------------------------------------------------------------
\* thread_count is a positive number.
LEMMA ThreadCountType == ThreadCount \in Nat /\ ThreadCount >= 1
BY ThreadsAssumption, FS_CardinalityType, FS_EmptySet DEF ThreadCount

\* Everybody but the last arriver is gathering in the current generation.
LEMMA LastArriver ==
    ASSUME BarrierInv, NEW t \in Threads \ inWait, arrived + 1 = ThreadCount
    PROVE  /\ Gathering = Threads \ {t}
           /\ inWait = Threads \ {t}
           /\ Stragglers = {}
<1> DEFINE Others == Threads \ {t}
<1>1. /\ Gathering \subseteq Others
      /\ inWait \subseteq Others
      /\ Stragglers = inWait \ Gathering
  BY DEF BarrierInv, BarrierTypeOK, Gathering, Stragglers
<1>2. IsFiniteSet(Others) /\ Cardinality(Others) = ThreadCount - 1
  BY ThreadsAssumption, FS_RemoveElement DEF ThreadCount
<1>3. Cardinality(Gathering) = Cardinality(Others)
  <2>1. arrived \in Int
    BY ThreadCountType DEF BarrierInv, BarrierTypeOK
  <2> QED BY <1>2, <2>1, ThreadCountType DEF BarrierInv, CountExact
<1>4. Gathering = Others
  BY <1>1, <1>2, <1>3, FS_Subset
<1>5. Gathering \subseteq inWait
  BY DEF Gathering
<1> QED BY <1>1, <1>4, <1>5

\* Whoever is elected, the last arriver included, is a thread: the unwrap of
\* `elected` in wait cannot fail.
LEMMA ElectedIsThread ==
    ASSUME BarrierInv, NEW t \in Threads PROVE Elect(t) \in Threads
<1>1. CASE arrived = 0
  BY <1>1 DEF Elect
<1>2. CASE arrived # 0
  <2>1. elected \in Threads
    BY <1>2 DEF BarrierInv, BarrierTypeOK, ElectedWaits, Gathering
  <2> QED BY <1>2, <2>1, ThreadCountType DEF Elect, BarrierInv, BarrierTypeOK
<1> QED BY <1>1, <1>2

-----------------------------------------------------------------------------
\* The initial states satisfy the inductive invariant.
LEMMA InvInit == BarrierInit => BarrierInv
<1> SUFFICES ASSUME BarrierInit PROVE BarrierInv
  OBVIOUS
<1>1. Gathering = {} /\ Stragglers = {}
  BY DEF BarrierInit, Gathering, Stragglers
<1>2. BarrierTypeOK
  BY ThreadCountType, MaxGenAssumption DEF BarrierInit, BarrierTypeOK
<1>3. CountExact /\ ElectedWaits /\ NoLostWakeup
  BY <1>1, FS_EmptySet DEF BarrierInit, CountExact, ElectedWaits, NoLostWakeup
<1>4. OneLeader
  BY DEF BarrierInit, OneLeader
<1> QED BY <1>2, <1>3, <1>4 DEF BarrierInv

\* A thread that arrives and blocks joins the gathering and nothing else.
LEMMA InvArriveAndBlock ==
    ASSUME BarrierInv, NEW t \in Threads, generation < MaxGen, ArriveAndBlock(t)
    PROVE  BarrierInv'
<1> USE ThreadCountType, MaxGenAssumption
<1>0. BarrierTypeOK
  BY DEF BarrierInv
<1>1. BarrierTypeOK'
  BY <1>0, ElectedIsThread DEF BarrierTypeOK, ArriveAndBlock
<1>2. Gathering' = Gathering \cup {t} /\ t \notin Gathering /\ Stragglers' = Stragglers
  BY <1>0 DEF BarrierTypeOK, ArriveAndBlock, Gathering, Stragglers
<1>3. IsFiniteSet(Gathering)
  BY <1>0, ThreadsAssumption, FS_Subset DEF BarrierTypeOK, Gathering
<1>4. CountExact'
  <2>1. arrived' = Cardinality(Gathering')
    BY <1>0, <1>2, <1>3, FS_AddElement DEF BarrierInv, CountExact, ArriveAndBlock
  <2>2. \A u \in Stragglers' : myGen'[u] + 1 = generation'
    BY <1>0, <1>2 DEF BarrierInv, CountExact, ArriveAndBlock, BarrierTypeOK, Stragglers
  <2> QED BY <2>1, <2>2 DEF CountExact
<1>5. ElectedWaits'
  <2>1. arrived' # 0
    BY <1>0 DEF BarrierTypeOK, ArriveAndBlock
  <2>2. elected' \in Gathering'
    BY <1>0, <1>2 DEF BarrierInv, ElectedWaits, ArriveAndBlock, Elect, BarrierTypeOK
  <2> QED BY <2>1, <2>2 DEF ElectedWaits
<1>6. NoLostWakeup'
  BY <1>2 DEF BarrierInv, NoLostWakeup, ArriveAndBlock
<1>7. OneLeader'
  BY <1>2 DEF BarrierInv, OneLeader, Claims, ArriveAndBlock
<1> QED BY <1>1, <1>4, <1>5, <1>6, <1>7 DEF BarrierInv

\* The last arriver turns the whole gathering into stragglers of the next
\* generation and hands them a leader; no older straggler is left.
LEMMA InvArriveLast ==
    ASSUME BarrierInv, NEW t \in Threads, generation < MaxGen, ArriveLast(t)
    PROVE  BarrierInv'
<1> USE ThreadCountType, MaxGenAssumption
<1>0. BarrierTypeOK
  BY DEF BarrierInv
<1>1. /\ Gathering = Threads \ {t}
      /\ inWait = Threads \ {t}
      /\ Stragglers = {}
  BY LastArriver DEF ArriveLast, CompleteGeneration
<1>2. Elect(t) \in Threads
  BY ElectedIsThread
<1>3. BarrierTypeOK'
  BY <1>0, <1>2 DEF BarrierTypeOK, ArriveLast, CompleteGeneration
<1>4. Gathering' = {} /\ Stragglers' = Threads \ {t}
  BY <1>0, <1>1 DEF ArriveLast, CompleteGeneration, Gathering, Stragglers, BarrierTypeOK
<1>5. CountExact'
  <2>1. arrived' = Cardinality(Gathering')
    BY <1>4, FS_EmptySet DEF ArriveLast, CompleteGeneration
  <2>2. \A u \in Stragglers' : myGen'[u] + 1 = generation'
    BY <1>0, <1>1, <1>4 DEF ArriveLast, CompleteGeneration, Gathering, BarrierTypeOK
  <2> QED BY <2>1, <2>2 DEF CountExact
<1>6. ElectedWaits' /\ NoLostWakeup'
  BY DEF ArriveLast, CompleteGeneration, ElectedWaits, NoLostWakeup
<1>7. OneLeader'
  <2>1. \A u \in Threads \ {t} : Claims(u)' <=> u = Elect(t)
    BY <1>4 DEF Claims, ArriveLast, CompleteGeneration
  <2>2. Claims(t)' <=> t = Elect(t)
    <3>1. Claims(t)' = isLeader'[t]
      BY <1>4 DEF Claims
    <3>2. isLeader'[t] = (t = Elect(t))
      BY <1>0 DEF ArriveLast, CompleteGeneration, BarrierTypeOK
    <3> QED BY <3>1, <3>2
  <2> QED BY <1>2, <2>1, <2>2 DEF OneLeader
<1> QED BY <1>3, <1>5, <1>6, <1>7 DEF BarrierInv

\* A wakeup without a notification, and the re-check that follows it.
LEMMA InvSpuriousOrWaitAgain ==
    ASSUME BarrierInv, NEW t \in Threads, SpuriousWakeup(t) \/ WaitAgain(t)
    PROVE  BarrierInv'
<1>0. BarrierTypeOK
  BY DEF BarrierInv
<1>1. UNCHANGED <<arrived, generation, elected, resolvedLeader, inWait, myGen, isLeader>>
  BY DEF SpuriousWakeup, WaitAgain, state
<1>2. Gathering' = Gathering /\ Stragglers' = Stragglers
  BY <1>1 DEF Gathering, Stragglers
<1>3. sleeping' \in SUBSET inWait' /\ sleeping' \subseteq Gathering'
  BY <1>0, <1>1, <1>2 DEF BarrierInv, NoLostWakeup, SpuriousWakeup, WaitAgain, Gathering, BarrierTypeOK
<1>4. BarrierTypeOK' /\ NoLostWakeup'
  BY <1>0, <1>1, <1>3 DEF BarrierTypeOK, NoLostWakeup, ThreadCount
<1>5. CountExact' /\ ElectedWaits'
  BY <1>1, <1>2 DEF BarrierInv, CountExact, ElectedWaits
<1>6. OneLeader'
  BY <1>1, <1>2 DEF BarrierInv, OneLeader, Claims
<1> QED BY <1>4, <1>5, <1>6 DEF BarrierInv

\* A straggler returns with the verdict it was already entitled to.
LEMMA InvReturn ==
    ASSUME BarrierInv, NEW t \in Threads, Return(t)
    PROVE  BarrierInv'
<1>0. BarrierTypeOK
  BY DEF BarrierInv
<1>1. UNCHANGED <<arrived, generation, elected, resolvedLeader, sleeping, myGen>>
  BY DEF Return, state
<1>2. t \in Stragglers /\ t \notin Gathering
  BY DEF Return, Stragglers, Gathering
<1>3. Gathering' = Gathering /\ Stragglers' = Stragglers \ {t}
  BY <1>1, <1>2 DEF Return, Gathering, Stragglers
<1>4. BarrierTypeOK' /\ NoLostWakeup'
  BY <1>0, <1>1, <1>2, <1>3 DEF BarrierInv, Return, BarrierTypeOK, NoLostWakeup, ThreadCount
<1>5. CountExact' /\ ElectedWaits'
  BY <1>1, <1>3 DEF BarrierInv, CountExact, ElectedWaits
<1>6. OneLeader'
  <2>1. ASSUME NEW u \in Threads PROVE Claims(u)' <=> Claims(u)
    <3>1. CASE u = t
      <4>1. Claims(u) <=> resolvedLeader = t
        BY <1>2, <3>1 DEF Claims
      <4>2. isLeader'[t] = (t = resolvedLeader)
        BY <1>0 DEF Return, BarrierTypeOK
      <4>3. Claims(u)' = isLeader'[t]
        BY <1>3, <3>1 DEF Claims
      <4> QED BY <4>1, <4>2, <4>3
    <3>2. CASE u # t
      <4>1. isLeader'[u] = isLeader[u]
        BY <1>0, <3>2 DEF Return, BarrierTypeOK
      <4> QED BY <1>1, <1>3, <3>2, <4>1 DEF Claims
    <3> QED BY <3>1, <3>2
  <2> QED BY <1>1, <2>1 DEF BarrierInv, OneLeader
<1> QED BY <1>4, <1>5, <1>6 DEF BarrierInv

\* Every step preserves the inductive invariant.
LEMMA InvStep == BarrierInv /\ [BarrierNext]_barrierVars => BarrierInv'
<1> SUFFICES ASSUME BarrierInv, [BarrierNext]_barrierVars PROVE BarrierInv'
  OBVIOUS
<1>1. CASE UNCHANGED barrierVars
  BY <1>1 DEF BarrierInv, BarrierTypeOK, CountExact, ElectedWaits, NoLostWakeup, OneLeader,
     Claims, Gathering, Stragglers, ThreadCount, barrierVars, state, locals
<1>2. CASE \E t \in Threads : Arrive(t)
  BY <1>2, InvArriveAndBlock, InvArriveLast DEF Arrive
<1>3. CASE \E t \in Threads : SpuriousWakeup(t) \/ Wake(t)
  BY <1>3, InvSpuriousOrWaitAgain, InvReturn DEF Wake
<1> QED BY <1>1, <1>2, <1>3 DEF BarrierNext, Finished

\* The inductive invariant holds in every reachable state.
THEOREM InductiveInvariant == BarrierSpec => []BarrierInv
BY InvInit, InvStep, PTL DEF BarrierSpec

\* Type correctness; with ElectedIsThread, the unwrap in wait never panics.
THEOREM TypeCorrect == BarrierSpec => []BarrierTypeOK
BY InductiveInvariant, PTL DEF BarrierInv

\* ThreadBarrier::wait elects exactly one leader per generation, for any number
\* of threads, whatever the wakeup order.
THEOREM LeaderUnique == BarrierSpec => []OneLeader
BY InductiveInvariant, PTL DEF BarrierInv

\* The arrival counter is exact and stragglers are one generation behind.
THEOREM CounterExact == BarrierSpec => []CountExact
BY InductiveInvariant, PTL DEF BarrierInv

\* `elected` names a thread gathering in the current generation, or nobody.
THEOREM ElectedIsGathering == BarrierSpec => []ElectedWaits
BY InductiveInvariant, PTL DEF BarrierInv

\* No thread sleeps through its notification.
THEOREM WakeupsNotLost == BarrierSpec => []NoLostWakeup
BY InductiveInvariant, PTL DEF BarrierInv

\* resolved_leader is overwritten only after the last thread has read it: the
\* claim of the comment on the field.
THEOREM LeaderReadBeforeOverwritten == BarrierSpec => NotOverwrittenBeforeRead
<1>1. ASSUME BarrierInv, [BarrierNext]_barrierVars
      PROVE  [resolvedLeader' # resolvedLeader => Stragglers = {}]_barrierVars
  <2>1. ASSUME NEW t \in Threads, ArriveLast(t) PROVE Stragglers = {}
    BY <1>1, <2>1, LastArriver DEF ArriveLast, CompleteGeneration
  <2> QED BY <1>1, <2>1 DEF BarrierNext, Arrive, ArriveAndBlock, SpuriousWakeup, Wake,
             WaitAgain, Return, Finished, barrierVars, state
<1> QED BY InductiveInvariant, <1>1, PTL DEF BarrierSpec, NotOverwrittenBeforeRead

-----------------------------------------------------------------------------
(***************************************************************************)
(* ThreadBarrier implements Rendezvous, action by action.                  *)
(***************************************************************************)

\* What the mapping makes of HasEntered: a thread has entered the round that an
\* outside thread is about to enter iff it is gathering.
LEMMA EnteredIsGathering ==
    ASSUME BarrierInv, NEW t \in Threads \ inWait, NEW u \in Threads \ {t}
    PROVE  Rounds!HasEntered(u, t) <=> u \in Gathering
BY DEF BarrierInv, BarrierTypeOK, CountExact, Rounds!HasEntered, roundBar, Gathering, Stragglers

\* Blocking in wait is entering the round.
LEMMA RefineArriveAndBlock ==
    ASSUME BarrierInv, NEW t \in Threads, generation < MaxGen, ArriveAndBlock(t)
    PROVE  Rounds!Enter(t)
<1>0. BarrierTypeOK /\ t \in Threads \ inWait
  BY DEF BarrierInv, ArriveAndBlock
<1>1. /\ roundBar \in [Threads -> Nat] /\ roundBar[t] = generation
      /\ roundBar' = roundBar
  BY <1>0, MaxGenAssumption DEF BarrierTypeOK, roundBar, ArriveAndBlock
<1>2. \E u \in Threads \ {t} : ~Rounds!HasEntered(u, t)
  <2>1. SUFFICES ASSUME \A u \in Threads \ {t} : u \in Gathering PROVE FALSE
    BY <1>0, EnteredIsGathering
  <2>2. Gathering = Threads \ {t}
    BY <2>1, <1>0 DEF Gathering, BarrierTypeOK
  <2>3. Cardinality(Gathering) = ThreadCount - 1
    BY <2>2, ThreadsAssumption, FS_RemoveElement DEF ThreadCount
  <2> QED BY <2>3, ThreadCountType DEF BarrierInv, CountExact, BarrierTypeOK, ArriveAndBlock
<1>3. firstBar' = IF \E u \in Threads \ {t} : Rounds!HasEntered(u, t)
                  THEN firstBar ELSE firstBar \cup {t}
  <2>1. (\E u \in Threads \ {t} : Rounds!HasEntered(u, t)) <=> Gathering # {}
    BY <1>0, EnteredIsGathering DEF Gathering, BarrierTypeOK
  <2>2. Gathering # {} <=> arrived # 0
    <3>1. IsFiniteSet(Gathering)
      BY <1>0, ThreadsAssumption, FS_Subset DEF BarrierTypeOK, Gathering
    <3> QED BY <3>1, FS_EmptySet DEF BarrierInv, CountExact
  <2>3. CASE arrived = 0
    BY <1>0, <2>1, <2>2, <2>3 DEF firstBar, ArriveAndBlock, Elect, BarrierTypeOK, Gathering
  <2>4. CASE arrived # 0
    <3>1. elected' = elected /\ elected # t
      BY <1>0, <2>4, ThreadCountType DEF ArriveAndBlock, Elect, BarrierTypeOK, BarrierInv, ElectedWaits, Gathering
    <3> QED BY <1>0, <2>1, <2>2, <2>4, <3>1 DEF firstBar, ArriveAndBlock, BarrierTypeOK
  <2> QED BY <2>3, <2>4
<1> QED BY <1>0, <1>1, <1>2, <1>3 DEF Rounds!Enter, ArriveAndBlock

\* The last arriver passes straight through.
LEMMA RefineArriveLast ==
    ASSUME BarrierInv, NEW t \in Threads, generation < MaxGen, ArriveLast(t)
    PROVE  Rounds!Pass(t)
<1>0. BarrierTypeOK /\ t \in Threads \ inWait
  BY DEF BarrierInv, ArriveLast, CompleteGeneration
<1>1. Gathering = Threads \ {t} /\ inWait = Threads \ {t}
  BY LastArriver DEF ArriveLast, CompleteGeneration
<1>2. \A u \in Threads \ {t} : Rounds!HasEntered(u, t)
  BY <1>0, <1>1, EnteredIsGathering
<1>3. roundBar[t] < MaxGen /\ roundBar' = [roundBar EXCEPT ![t] = @ + 1]
  BY <1>0, <1>1 DEF BarrierTypeOK, roundBar, ArriveLast, CompleteGeneration
<1>4. t = Elect(t) <=> Threads = {t}
  <2>1. CASE arrived = 0
    <3>1. Threads \ {t} = {}
      BY <1>1, <2>1, ThreadsAssumption, FS_RemoveElement, FS_EmptySet DEF BarrierInv, CountExact
    <3> QED BY <2>1, <3>1 DEF Elect
  <2>2. CASE arrived # 0
    BY <1>0, <1>1, <2>2, ThreadCountType DEF Elect, BarrierInv, ElectedWaits, BarrierTypeOK, Gathering
  <2> QED BY <2>1, <2>2
<1>5. isLeader' = [isLeader EXCEPT ![t] = (Threads = {t})]
  BY <1>4 DEF ArriveLast, CompleteGeneration
<1>6. firstBar' = firstBar
  <2>1. \A u \in inWait : myGen'[u] # generation' /\ myGen[u] = generation
    BY <1>0, <1>1 DEF BarrierTypeOK, ArriveLast, CompleteGeneration, Gathering
  <2>2. CASE inWait = {}
    BY <2>2 DEF firstBar, ArriveLast, CompleteGeneration
  <2>3. CASE inWait # {}
    <3>1. Gathering # {}
      BY <1>1, <2>3
    <3>2. arrived # 0
      BY <3>1, <1>0, ThreadsAssumption, FS_Subset, FS_EmptySet DEF BarrierInv, CountExact, BarrierTypeOK, Gathering
    <3>3. resolvedLeader' = elected
      BY <3>2, <1>0, ThreadCountType DEF ArriveLast, CompleteGeneration, Elect, BarrierTypeOK
    <3> QED BY <2>1, <3>3 DEF firstBar, ArriveLast, CompleteGeneration
  <2> QED BY <2>2, <2>3
<1> QED BY <1>0, <1>2, <1>3, <1>5, <1>6 DEF Rounds!Pass, ArriveLast, CompleteGeneration

\* A straggler leaves the round it is in.
LEMMA RefineReturn ==
    ASSUME BarrierInv, NEW t \in Threads, Return(t)
    PROVE  Rounds!Leave(t)
<1>0. BarrierTypeOK /\ t \in Stragglers /\ t \in inWait
  BY DEF BarrierInv, Return, Stragglers
<1>1. myGen[t] + 1 = generation
  BY <1>0 DEF BarrierInv, CountExact
<1>2. ASSUME NEW u \in Threads PROVE Rounds!HasEntered(u, t)
  <2>1. u \in Stragglers => myGen[u] = myGen[t]
    BY <1>0, <1>1 DEF BarrierInv, CountExact, BarrierTypeOK
  <2> QED BY <1>0, <1>1, <2>1, MaxGenAssumption
          DEF Rounds!HasEntered, roundBar, Stragglers, BarrierTypeOK
<1>3. roundBar' = [roundBar EXCEPT ![t] = @ + 1]
  BY <1>0, <1>1 DEF BarrierTypeOK, roundBar, Return, state
<1>4. firstBar' = firstBar \ {t}
  BY <1>0 DEF firstBar, Return, state
<1>5. (t \in firstBar) = (t = resolvedLeader)
  BY <1>0 DEF firstBar, Stragglers
<1>6. isLeader' = [isLeader EXCEPT ![t] = (t \in firstBar)]
  BY <1>5 DEF Return
<1> QED BY <1>0, <1>2, <1>3, <1>4, <1>6 DEF Rounds!Leave, Return

\* ThreadBarrier::wait keeps the contract of Rendezvous: nobody leaves a round
\* before all have entered it, and "leader" means "entered first".
THEOREM BarrierImplementsRendezvous == BarrierSpec => ImplementsRendezvous
<1>1. BarrierInit => Rounds!Init
  BY DEF BarrierInit, Rounds!Init, roundBar, firstBar
<1>2. ASSUME BarrierInv, [BarrierNext]_barrierVars PROVE [Rounds!Next]_(Rounds!vars)
  <2>1. ASSUME NEW t \in Threads, Arrive(t) PROVE Rounds!Next
    BY <1>2, <2>1, RefineArriveAndBlock, RefineArriveLast DEF Arrive, Rounds!Next
  <2>2. ASSUME NEW t \in Threads, Return(t) PROVE Rounds!Next
    BY <1>2, <2>2, RefineReturn DEF Rounds!Next
  <2>3. CASE (\E t \in Threads : SpuriousWakeup(t) \/ WaitAgain(t)) \/ UNCHANGED barrierVars
    BY <2>3 DEF Rounds!vars, roundBar, firstBar, SpuriousWakeup, WaitAgain, barrierVars, state, locals
  <2> QED BY <1>2, <2>1, <2>2, <2>3 DEF BarrierNext, Wake, Finished
<1> QED BY <1>1, <1>2, InductiveInvariant, PTL DEF BarrierSpec, Rounds!Spec, ImplementsRendezvous
=============================================================================
