-------------------------------- MODULE Spmd --------------------------------
(***************************************************************************)
(* A parallel region of the CQAM virtual machine: HFORK, HMERGE, HATMS and *)
(* HATME (cqam-vm/src/hybrid.rs) executed by N threads that run the same   *)
(* program, thread 0 under the runner's loop (cqam-run/src/runner.rs) and  *)
(* the workers under run_spmd_thread.  The barrier is used through its     *)
(* contract, Rendezvous, which ThreadBarrier is proved to implement.       *)
(*                                                                         *)
(* A program is a sequence of abstract instructions [op, arg].  One step   *)
(* executes one instruction of one thread, except where the code takes     *)
(* locks of its own: arriving at and leaving the barrier, committing the   *)
(* snapshot, spawning each worker and joining are separate steps.          *)
(***************************************************************************)
EXTENDS Naturals, Sequences, FiniteSets

CONSTANTS
    N,                \* thread_count
    Programs,         \* the programs to choose from
    SharedBase,       \* SharedSection.base
    SharedCells,      \* SharedSection.cells
    AddrSpace, OverflowChecks,
    ValueSpace,       \* register values are 0 .. ValueSpace-1 (i64 in the code)
    QIdx,             \* indices of the quantum registers in use
    EnableInterrupts, \* SimConfig.enable_interrupts
    MaxCycles,        \* SimConfig.max_cycles
    SpawnMayFail,     \* can the OS refuse a thread?
    MaxRounds         \* bound: barrier rounds in one region

ASSUME NAssumption == N \in Nat \ {0}

VARIABLES
    prog,       \* the program
    ctx,        \* [Tids -> ExecutionContext]
    run,        \* [Tids -> RunState]: where each thread is in its loop
    cycles,     \* the runner's cycle_count (thread 0 only)
    data,       \* SharedMemory.data
    snapshot,   \* SharedMemory.snapshot
    qfile,      \* occupied registers of the SharedQuantumFile
    nextTid,    \* next worker HFORK's loop will spawn
    hasBarrier, \* thread 0's ForkManager holds a barrier
    round, inside, first, verdict   \* the barrier

Tids == 0 .. N - 1
Workers == Tids \ {0}
Val == 0 .. ValueSpace - 1

M == INSTANCE SharedMemory
R == INSTANCE Rendezvous WITH Threads <- Tids

shared == <<data, snapshot>>
fork == <<qfile, nextTid, hasBarrier>>
barrier == <<round, inside, first, verdict>>
vars == <<prog, ctx, run, cycles, shared, fork, barrier>>

Region == M!RunnerRegion(SharedBase, Len(SharedCells))

ASSUME SizesAssumption ==
    /\ AddrSpace \in Nat \ {0} /\ ValueSpace \in Nat \ {0}
    /\ OverflowChecks \in BOOLEAN /\ EnableInterrupts \in BOOLEAN

\* The cells fit; their end fits a u16, or the runner's sum panics before it starts.
ASSUME SharedAssumption ==
    /\ SharedCells \in Seq(Val)
    /\ SharedBase \in M!Addr
    /\ SharedBase + Len(SharedCells) <= AddrSpace
    /\ OverflowChecks => SharedBase + Len(SharedCells) < AddrSpace

\* Operands are in range: addresses are u16, register numbers are checked on parsing.
ASSUME ProgramsAssumption ==
    \A p \in Programs :
        /\ p \in Seq([op : STRING, arg : Nat])
        /\ \A i \in 1 .. Len(p) :
             /\ p[i].op \in {"LOAD", "STORE"} => p[i].arg \in M!Addr
             /\ p[i].op \in {"QPREP", "QOBSERVE"} => p[i].arg \in QIdx

\* "hatms"/"hatme": blocked in the barrier; "committed": the leader between
\* commit_snapshot and the barrier of HATME; "exited": the loop ended Ok;
\* "failed": it ended in Err or in a panic.
RunState == {"idle", "exec", "spawning", "hatms", "committed", "hatme",
             "joining", "exited", "failed"}
Ended == {"exited", "failed"}

-----------------------------------------------------------------------------
\* ExecutionContext::new after the runner has stored .shared cells into CMEM.
\* in_atomic_section and psw.af are always assigned together: one field here.
NewContext ==
    [pc |-> 0, forked |-> FALSE, merged |-> FALSE, inAtomic |-> FALSE,
     skip |-> FALSE, qf |-> FALSE, qregs |-> {}, halt |-> FALSE, arith |-> FALSE,
     sharing |-> FALSE, acc |-> 0,
     cmem |-> [a \in M!Addr |->
                 IF a \in SharedBase .. SharedBase + Len(SharedCells) - 1
                 THEN SharedCells[a - SharedBase + 1] ELSE 0]]

Init ==
    /\ prog \in Programs
    /\ ctx = [t \in Tids |-> NewContext]
    /\ run = [t \in Tids |-> IF t = 0 THEN "exec" ELSE "idle"]
    /\ cycles = 0
    /\ data = M!InitialData(Region, NewContext.cmem)
    /\ snapshot = data
    /\ qfile = {} /\ nextTid = 1 /\ hasBarrier = FALSE
    /\ R!Init

-----------------------------------------------------------------------------
\* Fetch.
At(t, op) ==
    /\ run[t] = "exec"
    /\ ctx[t].pc < Len(prog)
    /\ prog[ctx[t].pc + 1].op = op
Arg(t) == prog[ctx[t].pc + 1].arg

\* The same, for a thread that is not skipping to HATME.
Executes(t, op) == At(t, op) /\ ~ctx[t].skip

Advance(c) == [c EXCEPT !.pc = @ + 1]

\* dispatch_pending_traps, which only thread 0's loop calls.  No handler is
\* registered (SETIV is not modelled here), so handle_trap halts if enabled.
Dispatched(t, c) ==
    IF t = 0 /\ c.arith
    THEN [c EXCEPT !.arith = FALSE, !.halt = @ \/ EnableInterrupts]
    ELSE c

\* The runner's cycle limit, tested at the head of the next iteration.
Limited(t, c) ==
    IF t = 0 /\ c.pc < Len(prog) /\ cycles + 1 >= MaxCycles
    THEN [c EXCEPT !.halt = TRUE] ELSE c

\* An instruction of t returned Ok with context c: the rest of the loop body and
\* the loop's exit conditions, the runner's for thread 0 and run_spmd_thread's
\* for a worker.
Retire(t, c) ==
    LET e == Limited(t, Dispatched(t, c)) IN
    /\ ctx' = [ctx EXCEPT ![t] = e]
    /\ run' = [run EXCEPT ![t] =
                 IF e.halt \/ e.pc >= Len(prog) \/ (t # 0 /\ e.merged)
                 THEN "exited" ELSE "exec"]
    /\ cycles' = IF t = 0 THEN cycles + 1 ELSE cycles
    /\ UNCHANGED prog

\* An instruction of t returned Err (or panicked) leaving context c.
Fault(t, c) ==
    /\ ctx' = [ctx EXCEPT ![t] = c]
    /\ run' = [run EXCEPT ![t] = "failed"]
    /\ UNCHANGED <<prog, cycles>>

\* t goes to a place inside an instruction.
Goto(t, place, c) ==
    /\ ctx' = [ctx EXCEPT ![t] = c]
    /\ run' = [run EXCEPT ![t] = place]
    /\ UNCHANGED <<prog, cycles>>

-----------------------------------------------------------------------------
(***************************************************************************)
(* Instructions that touch only the thread's own context.                  *)
(***************************************************************************)

\* A non-leader passes over everything up to HATME, jumps and HALT included.
SkipsHatmeToo(t) == run[t] = "exec" /\ ctx[t].skip   \* faulty variant
Skips(t) == run[t] = "exec" /\ ctx[t].skip /\ ~At(t, "HATME")
Skip(t) == Skips(t) /\ Retire(t, Advance(ctx[t]))

\* ILDM: through shared memory when the thread has one.
Load(t) ==
    /\ Executes(t, "LOAD")
    /\ IF ctx[t].sharing /\ M!ContainsPanics(Region, Arg(t))
       THEN Fault(t, ctx[t])
       ELSE Retire(t, Advance([ctx[t] EXCEPT !.acc =
              IF ctx[t].sharing
              THEN M!SharedLoad(Region, data, snapshot, ctx[t].cmem, Arg(t), ctx[t].inAtomic)
              ELSE ctx[t].cmem[Arg(t)]]))

\* ISTR to private memory, or to a shared cell without leave (an error).
Store(t) ==
    LET panics == ctx[t].sharing /\ M!ContainsPanics(Region, Arg(t))
        hit    == ctx[t].sharing /\ M!Contains(Region, Arg(t))
    IN
    /\ Executes(t, "STORE")
    /\ \/ (panics \/ (hit /\ ~ctx[t].inAtomic)) /\ Fault(t, ctx[t])
       \/ /\ ~panics /\ ~hit
          /\ Retire(t, Advance([ctx[t] EXCEPT !.cmem[Arg(t)] = ctx[t].acc]))

\* IINC, with wrap-around.
Incremented(v) == (v + 1) % ValueSpace
Inc(t) ==
    /\ Executes(t, "INC")
    /\ Retire(t, Advance([ctx[t] EXCEPT !.acc = Incremented(@)]))

\* JMP, JMPF AF, and the ITID / JIF pair that branches on a non-zero thread id.
JumpTaken(t) ==
    \/ Executes(t, "JMP")
    \/ Executes(t, "JMPAF") /\ ctx[t].inAtomic
    \/ Executes(t, "JTID") /\ t # 0
JumpNotTaken(t) ==
    \/ Executes(t, "JMPAF") /\ ~ctx[t].inAtomic
    \/ Executes(t, "JTID") /\ t = 0
Jump(t) ==
    \/ JumpTaken(t) /\ Retire(t, [ctx[t] EXCEPT !.pc = Arg(t)])
    \/ JumpNotTaken(t) /\ Retire(t, Advance(ctx[t]))

\* HALT; IDIV by zero (a trap flag); FDIV by zero (an error).
Halt(t) == Executes(t, "HALT") /\ Retire(t, [ctx[t] EXCEPT !.halt = TRUE])
IDivZero(t) ==
    /\ Executes(t, "IDIV0")
    /\ Retire(t, Advance([ctx[t] EXCEPT !.acc = 0, !.arith = TRUE]))
FDivZero(t) == Executes(t, "FDIV0") /\ Fault(t, ctx[t])

\* QPREP and QOBSERVE, reduced to occupancy and the QF flag.  Neither looks at
\* the SharedQuantumFile or at the atomic section.
QPrep(t) ==
    /\ Executes(t, "QPREP")
    /\ Retire(t, Advance([ctx[t] EXCEPT !.qregs = @ \cup {Arg(t)}, !.qf = TRUE]))
QObserve(t) ==
    /\ Executes(t, "QOBSERVE")
    /\ IF Arg(t) \in ctx[t].qregs
       THEN Retire(t, Advance([ctx[t] EXCEPT !.qregs = @ \ {Arg(t)}, !.qf = FALSE]))
       ELSE Fault(t, ctx[t])

Local(t) ==
    /\ \/ Skip(t) \/ Load(t) \/ Store(t) \/ Inc(t) \/ Jump(t) \/ Halt(t)
       \/ IDivZero(t) \/ FDivZero(t) \/ QPrep(t) \/ QObserve(t)
    /\ UNCHANGED <<shared, fork, barrier>>

\* ISTR by the leader: the only write to the live data.
StoreShared(t) ==
    /\ Executes(t, "STORE")
    /\ ctx[t].sharing /\ ctx[t].inAtomic
    /\ ~M!ContainsPanics(Region, Arg(t)) /\ M!Contains(Region, Arg(t))
    /\ data' = [data EXCEPT ![M!Offset(Region, Arg(t))] = ctx[t].acc]
    /\ Retire(t, Advance(ctx[t]))
    /\ UNCHANGED <<snapshot, fork, barrier>>

-----------------------------------------------------------------------------
(***************************************************************************)
(* HFORK.  A worker is always forked and leaves its loop at HMERGE, so only*)
(* thread 0 gets past the first check.                                     *)
(***************************************************************************)
HForkRefused(t) ==
    /\ Executes(t, "HFORK")
    /\ ctx[t].forked \/ (N > 1 /\ ctx[t].qf)
    /\ Fault(t, ctx[t])
    /\ UNCHANGED <<shared, fork, barrier>>

HForkSingle(t) ==
    /\ Executes(t, "HFORK")
    /\ ~ctx[t].forked /\ N = 1
    /\ Retire(t, Advance([ctx[t] EXCEPT !.forked = TRUE, !.merged = FALSE]))
    /\ UNCHANGED <<shared, fork, barrier>>

\* Steps 1-3: the quantum file, the shared memory and a new barrier.
HForkSetup ==
    LET emptied == [ctx[0] EXCEPT !.qregs = {}] IN
    /\ Executes(0, "HFORK")
    /\ ~ctx[0].forked /\ N > 1 /\ ~ctx[0].qf
    /\ qfile' = ctx[0].qregs
    /\ nextTid' = 1
    /\ IF M!CreationPanics(Region)
       THEN Fault(0, emptied) /\ UNCHANGED <<shared, barrier>>
       ELSE /\ Goto(0, "spawning", emptied)
            /\ data' = M!InitialData(Region, ctx[0].cmem)
            /\ snapshot' = data'
            /\ round' = [t \in Tids |-> 0]
            /\ verdict' = [t \in Tids |-> FALSE]
            /\ inside' = {} /\ first' = {}
    /\ UNCHANGED hasBarrier

\* Step 4, one worker: it starts from a clone of thread 0's context, at once.
HForkSpawn(t) ==
    LET clone == Advance([ctx[0] EXCEPT !.forked = TRUE, !.merged = FALSE,
                                        !.skip = FALSE, !.sharing = TRUE]) IN
    /\ run[0] = "spawning" /\ nextTid = t
    /\ ctx' = [ctx EXCEPT ![t] = clone]
    /\ run' = [run EXCEPT ![t] = IF clone.pc < Len(prog) THEN "exec" ELSE "exited"]
    /\ nextTid' = nextTid + 1
    /\ UNCHANGED <<prog, cycles, shared, qfile, hasBarrier, barrier>>

\* thread::Builder::spawn fails: HFORK returns the error, spawned workers stay.
HForkSpawnFails ==
    /\ SpawnMayFail
    /\ run[0] = "spawning" /\ nextTid < N
    /\ Fault(0, ctx[0])
    /\ UNCHANGED <<shared, fork, barrier>>

\* Step 5: thread 0 joins the region.
HForkDone ==
    /\ run[0] = "spawning" /\ nextTid = N
    /\ hasBarrier' = TRUE
    /\ Retire(0, Advance([ctx[0] EXCEPT !.forked = TRUE, !.merged = FALSE,
                                        !.skip = FALSE, !.sharing = TRUE]))
    /\ UNCHANGED <<shared, qfile, nextTid, barrier>>

(***************************************************************************)
(* HMERGE.  The flags are set before the QF check.                         *)
(***************************************************************************)
MergeFlags(c) ==
    [c EXCEPT !.merged = TRUE, !.forked = FALSE, !.inAtomic = FALSE, !.skip = FALSE]

HMerge(t) ==
    /\ Executes(t, "HMERGE")
    /\ \/ ~ctx[t].forked /\ Fault(t, ctx[t])
       \/ ctx[t].forked /\ N > 1 /\ ctx[t].qf /\ Fault(t, MergeFlags(ctx[t]))
       \/ /\ ctx[t].forked /\ (N = 1 \/ (t # 0 /\ ~ctx[t].qf))
          /\ Retire(t, Advance(MergeFlags(ctx[t])))
       \/ /\ ctx[t].forked /\ N > 1 /\ t = 0 /\ ~ctx[t].qf
          /\ Goto(t, "joining", MergeFlags(ctx[t]))
    /\ UNCHANGED <<shared, fork, barrier>>

\* join_all's verdict once every worker has ended.  (Faulty: errors are dropped.)
JoinErrorIgnored == FALSE
JoinError == \E w \in Workers : run[w] = "failed"

\* Registers and memory come back to thread 0.  (Faulty: memory does not.)
RestoredWithoutMemory(c) == [c EXCEPT !.qregs = qfile, !.sharing = FALSE]
Restored(c) ==
    [c EXCEPT !.qregs = qfile, !.cmem = M!WriteBack(Region, data, @), !.sharing = FALSE]

HMergeJoined ==
    /\ run[0] = "joining"
    /\ \A w \in Workers : run[w] \in Ended
    /\ IF JoinError THEN Fault(0, ctx[0]) ELSE Retire(0, Advance(Restored(ctx[0])))
    /\ UNCHANGED <<shared, fork, barrier>>

(***************************************************************************)
(* HATMS.                                                                  *)
(***************************************************************************)
\* The outcome of the barrier.  (Faulty: a thread that was the leader before and
\* is not now stays in its atomic section.)
ElectedForGood(t, leader) ==
    Retire(t, Advance([ctx[t] EXCEPT !.inAtomic = @ \/ leader, !.skip = ~leader]))
\* (Faulty: the last thread to arrive, which does not wait, leads as well.)
LastLeadsToo(t, leader) ==
    LET leads == leader \/ run[t] = "exec"
    IN  Retire(t, Advance([ctx[t] EXCEPT !.inAtomic = leads, !.skip = ~leads]))
Elected(t, leader) ==
    Retire(t, Advance([ctx[t] EXCEPT !.inAtomic = leader, !.skip = ~leader]))

\* A single thread leads every section.
LeadsAlone(c) == [c EXCEPT !.inAtomic = TRUE]

HAtmSAlone(t) ==
    /\ Executes(t, "HATMS")
    /\ ~ctx[t].forked \/ N = 1
    /\ IF ctx[t].forked
       THEN Retire(t, Advance(LeadsAlone(ctx[t])))
       ELSE Fault(t, ctx[t])
    /\ UNCHANGED <<shared, fork, barrier>>

HAtmSArrive(t) ==
    /\ Executes(t, "HATMS")
    /\ ctx[t].forked /\ N > 1
    /\ \/ R!Enter(t) /\ Goto(t, "hatms", ctx[t])
       \/ R!Pass(t) /\ Elected(t, verdict'[t])
    /\ UNCHANGED <<shared, fork>>

HAtmSReturn(t) ==
    /\ run[t] = "hatms"
    /\ R!Leave(t)
    /\ Elected(t, verdict'[t])
    /\ UNCHANGED <<shared, fork>>

(***************************************************************************)
(* HATME.  There is no check that the thread is forked: without a barrier  *)
(* the `expect` panics, and after HMERGE thread 0 still holds the old one. *)
(***************************************************************************)
HAtmEAlone(t) ==
    /\ At(t, "HATME")
    /\ \/ /\ N = 1
          /\ Retire(t, Advance([ctx[t] EXCEPT !.inAtomic = FALSE, !.skip = FALSE]))
       \/ /\ N > 1 /\ ~ctx[t].inAtomic /\ t = 0 /\ ~hasBarrier
          /\ Fault(t, [ctx[t] EXCEPT !.skip = FALSE])
    /\ UNCHANGED <<shared, fork, barrier>>

\* commit_snapshot.
Committed == data

HAtmECommit(t) ==
    /\ At(t, "HATME")
    /\ N > 1 /\ ctx[t].inAtomic
    /\ snapshot' = Committed
    /\ Goto(t, "committed", [ctx[t] EXCEPT !.inAtomic = FALSE, !.skip = FALSE])
    /\ UNCHANGED <<data, fork, barrier>>

\* The second barrier of a section.  (Faulty: there is none.)
CloseWithoutBarrier(t, c) == Retire(t, Advance(c)) /\ UNCHANGED barrier
Close(t, c) ==
    \/ R!Enter(t) /\ Goto(t, "hatme", c)
    \/ R!Pass(t) /\ Retire(t, Advance(c))

HAtmEArrive(t) ==
    /\ \/ run[t] = "committed"
       \/ At(t, "HATME") /\ N > 1 /\ ~ctx[t].inAtomic /\ (t # 0 \/ hasBarrier)
    /\ Close(t, [ctx[t] EXCEPT !.skip = FALSE])
    /\ UNCHANGED <<shared, fork>>

HAtmEReturn(t) ==
    /\ run[t] = "hatme"
    /\ R!Leave(t)
    /\ Retire(t, Advance(ctx[t]))
    /\ UNCHANGED <<shared, fork>>

-----------------------------------------------------------------------------
HFork(t) ==
    \/ Executes(t, "HFORK") /\ (HForkRefused(t) \/ HForkSingle(t))
    \/ t = 0 /\ (HForkSetup \/ HForkDone \/ HForkSpawnFails
                  \/ \E w \in Workers : HForkSpawn(w))
HAtmS(t) == HAtmSAlone(t) \/ HAtmSArrive(t) \/ HAtmSReturn(t)
HAtmE(t) == HAtmEAlone(t) \/ HAtmECommit(t) \/ HAtmEArrive(t) \/ HAtmEReturn(t)
Merge(t) == HMerge(t) \/ (t = 0 /\ HMergeJoined)

Step(t) ==
    Local(t) \/ StoreShared(t) \/ HFork(t) \/ HAtmS(t) \/ HAtmE(t) \/ Merge(t)

\* The program is over: run_with_backend returned and so did every worker.
Over == run[0] \in Ended /\ \A w \in Workers : run[w] \in Ended \cup {"idle"}
Done == Over /\ UNCHANGED vars

Next == (\E t \in Tids : Step(t)) \/ Done

Spec == Init /\ [][Next]_vars

\* The operating system runs every thread that can run.
FairSpec == Spec /\ \A t \in Tids : WF_vars(Step(t))

-----------------------------------------------------------------------------
(***************************************************************************)
(* Properties.                                                             *)
(***************************************************************************)
Context ==
    [pc : Nat, forked : BOOLEAN, merged : BOOLEAN, inAtomic : BOOLEAN,
     skip : BOOLEAN, qf : BOOLEAN, qregs : SUBSET QIdx, halt : BOOLEAN,
     arith : BOOLEAN, sharing : BOOLEAN, acc : Val, cmem : [M!Addr -> Val]]

\* Type invariant.
TypeOK ==
    /\ prog \in Programs
    /\ ctx \in [Tids -> Context]
    /\ run \in [Tids -> RunState]
    /\ cycles \in Nat
    /\ data \in [0 .. Region.size - 1 -> Val]
    /\ snapshot \in [0 .. Region.size - 1 -> Val]
    /\ qfile \in SUBSET QIdx
    /\ nextTid \in 1 .. N
    /\ hasBarrier \in BOOLEAN
    /\ round \in [Tids -> Nat]
    /\ inside \in SUBSET Tids
    /\ first \in SUBSET inside
    /\ verdict \in [Tids -> BOOLEAN]

\* The threads of this run, however many they are.
Started == DOMAIN run

\* t executes instructions as the leader of an atomic section.
InSection(t) == run[t] = "exec" /\ ctx[t].inAtomic

\* At most one thread at a time executes inside HATMS/HATME, whatever the
\* program does: branches on the thread id, a HATME without a HATMS, a leader
\* that jumps out of its section, threads that die.
ExclusiveSection ==
    \A t, u \in Tids : InSection(t) /\ InSection(u) => t = u

\* pc is between a HATMS of p and the HATME that closes it.
Within(p, pc) ==
    \E j \in DOMAIN p :
        /\ j <= pc /\ p[j].op = "HATMS"
        /\ \A k \in DOMAIN p : j < k /\ k <= pc => p[k].op # "HATME"

\* The sections of p are well formed in its text: they do not nest, none is left
\* open across HFORK or HMERGE, and no jump crosses the bounds of one.
Sectioned(p) ==
    \A i \in DOMAIN p :
        /\ p[i].op \in {"HATMS", "HFORK", "HMERGE"} => ~Within(p, i - 1)
        /\ p[i].op = "HATME" => Within(p, i - 1)
        /\ p[i].op \in {"JMP", "JMPAF", "JTID"} => (Within(p, p[i].arg) <=> Within(p, i - 1))

\* t's loads outside a section come from the snapshot.
ReadsSnapshot(t) ==
    run[t] = "exec" /\ ctx[t].sharing /\ ~ctx[t].inAtomic /\ ~ctx[t].skip

\* Between two sections every thread sees one frozen memory: the snapshot never
\* moves while some thread is executing code that reads it.
SnapshotFrozen ==
    [][snapshot' # snapshot /\ run'[0] # "spawning"
         => \A t \in Started : ~ReadsSnapshot(t)]_vars

\* No update is lost or done twice: if each section of the program adds one to
\* the cell at addr, then after the run the cell has grown by the number of
\* sections, whoever led them and in whatever order threads arrived.
Sections == Cardinality({i \in 1 .. Len(prog) : prog[i].op = "HATMS"})
EverySectionCounts(addr) ==
    run[0] = "exited" =>
        ctx[0].cmem[addr] = (NewContext.cmem[addr] + Sections) % ValueSpace

\* The instructions of p from number k on add one to the cell at a and close a section.
Adds(p, a, k) ==
    /\ k \in DOMAIN p /\ k + 3 \in DOMAIN p
    /\ p[k].op = "LOAD" /\ p[k].arg = a
    /\ p[k + 1].op = "INC"
    /\ p[k + 2].op = "STORE" /\ p[k + 2].arg = a
    /\ p[k + 3].op = "HATME"

\* Every section of p does so, at once or where its leader branches to.
Counting(p, a) ==
    /\ Sectioned(p)
    /\ \A i \in DOMAIN p : p[i].op = "HATMS" =>
         \/ Adds(p, a, i + 1)
         \/ /\ i + 1 \in DOMAIN p /\ p[i + 1].op = "JMPAF"
            /\ Adds(p, a, p[i + 1].arg + 1)

\* The same for one region and any program, loops included: the memory that thread 0
\* takes home has grown by the number of sections thread 0 has been through, one for
\* every two rounds of the barrier.
NoUpdateLost ==
    [][run[0] = "joining" /\ run'[0] \in {"exec", "exited"}
         => \A a \in M!Addr : Counting(prog, a) /\ M!Contains(Region, a) =>
              ctx'[0].cmem[a] = (ctx[0].cmem[a] + round[0] \div 2) % ValueSpace]_vars

\* When thread 0 is past HMERGE every worker has ended, and ended well: an error
\* in any worker, even a late one, makes HMERGE fail.
FaultsSurface ==
    ctx[0].merged /\ run[0] \in {"exec", "exited"}
        => \A w \in Workers : run[w] \in {"exited", "idle"}

\* A program whose threads all reach the same HATMS, HATME and HMERGE finishes,
\* workers included.
Completes == <>[](\A t \in Started : run[t] = "exited")

=============================================================================
