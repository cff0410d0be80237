-------------------------- MODULE QuantumRegisters --------------------------
(***************************************************************************)
(* The quantum instructions of the CQAM virtual machine: the Q registers   *)
(* and QMEM hold handles, the back end's table holds the states, and each  *)
(* instruction of qop.rs says which handles it makes, moves and gives up.  *)
(* The back end is the SimulationBackend, which never reuses a handle.     *)
(*                                                                         *)
(* HFORK and HMERGE are here for what they do to handles: HFORK puts away  *)
(* the registers of thread 0 and gives every worker a clone of QMEM and of *)
(* the back end, HMERGE puts the registers back.  What else happens in a   *)
(* region is in Spmd.  A program is any sequence of instructions.          *)
(***************************************************************************)
EXTENDS QuantumState

CONSTANTS
    N,              \* most threads of a region
    QRegs,          \* the Q registers in use
    Slots,          \* the QMEM slots in use
    Budget,         \* VmConfig.bell_pair_budget, 0 for no limit
    MaxHandles      \* bound: handles that one back end gives out

ASSUME SizesAssumption == N \in Nat \ {0} /\ Budget \in Nat /\ MaxHandles \in Nat

VARIABLES
    threads,    \* thread_count, from a pragma or the command line
    vm,         \* vm[t]: the ExecutionContext and the back end of thread t
    run,        \* run[t]: is thread t executing, over, or stopped by an error
    qfile,      \* the SharedQuantumFile
    overwritten \* history: handles in the registers that HMERGE overwrote

region == <<qfile, overwritten>>
vars == <<threads, vm, run, region>>

Tids == 0 .. N - 1
Handles == 0 .. MaxHandles - 1
Handle == Handles \cup {None}
Empty == [r \in QRegs |-> None]

Machine == [q : [QRegs -> Handle], mem : [Slots -> Handle],
            states : [Handles -> State \cup {None}], next : 0 .. MaxHandles,
            pairs : 0 .. Budget, qf : BOOLEAN, forked : BOOLEAN]

\* The registers, memory and table of a new context and a new back end.
NewMachine == [q |-> Empty, mem |-> [s \in Slots |-> None],
               states |-> [h \in Handles |-> None], next |-> 0,
               pairs |-> Budget, qf |-> FALSE, forked |-> FALSE]

Init ==
    /\ threads \in 1 .. N
    /\ vm = [t \in Tids |-> NewMachine]
    /\ run = [t \in Tids |-> IF t = 0 THEN "exec" ELSE "idle"]
    /\ qfile = Empty
    /\ overwritten = {}

-----------------------------------------------------------------------------
(***************************************************************************)
(* What the back end and the context do with a handle.                     *)
(***************************************************************************)
\* Is there room for k more handles (a bound of the model)?
Room(m, k) == m.next + k <= MaxHandles

\* SimulationBackend::alloc and release.
Alloc(m, s) == [m EXCEPT !.states[m.next] = s, !.next = @ + 1]
Release(m, h) == IF h = None THEN m ELSE [m EXCEPT !.states[h] = None]

\* set_qreg gives up the old occupant.
SetQreg(m, r, h) == [Release(m, m.q[r]) EXCEPT !.q[r] = h]

TakeQreg(m, r) == [m EXCEPT !.q[r] = None]

\* A new state in register r.
Filled(m, r, s) == SetQreg(Alloc(m, s), r, m.next)

\* The state in register r, which is used up by `observe`, `measure_qubit`,
\* `tensor_product`, `reset_qubit` and `prep_product_state`.
StateIn(m, r) == m.states[m.q[r]]
Consumed(m, r) == TakeQreg(Release(m, m.q[r]), r)

\* When thread 0 is over the process is, workers included.
Executes(t) == run[t] = "exec" /\ run[0] = "exec"

Retire(t, m) ==
    /\ vm' = [vm EXCEPT ![t] = m]
    /\ UNCHANGED <<threads, run, region>>

\* A thread leaves its loop with machine m.  A worker's back end is dropped with the
\* closure that owns it, and nothing reads its registers and memory again.
Leave(t, m, how) ==
    /\ vm' = [vm EXCEPT ![t] = IF t = 0 THEN m ELSE NewMachine]
    /\ run' = [run EXCEPT ![t] = how]
    /\ UNCHANGED <<threads, region>>

\* The instruction returns an error; program over, HALT, or a worker's HMERGE.
Fault(t, m) == Leave(t, m, "failed")
Stop(t) == Executes(t) /\ Leave(t, vm[t], "ended")

-----------------------------------------------------------------------------
(***************************************************************************)
(* Preparation and gates.                                                  *)
(***************************************************************************)
\* QPREP, QPREPR, QPREPN, QENCODE, QMIXED.
QPrep(t, dst) ==
    LET m == vm[t] IN
    /\ Executes(t)
    /\ \/ Fault(t, m)
       \/ /\ Room(m, 1)
          /\ \E s \in State : Retire(t, [Filled(m, dst, s) EXCEPT !.qf = TRUE])

\* QKERNEL, QKERNELF, QKERNELZ, QROT, QCNOT, QCZ, QSWAP, QCUSTOM: the source stays.
\* (Faulty: the back end uses up its state.)
GateReleasing(m, dst, src, s) == Filled(Release(m, m.q[src]), dst, s)
Gate(m, dst, src, s) == Filled(m, dst, s)
QKernel(t, dst, src) ==
    LET m == vm[t] IN
    /\ Executes(t)
    /\ \/ Fault(t, m)
       \/ /\ m.q[src] # None /\ Room(m, 1)
          /\ \E s \in Of(StateIn(m, src).qubits) :
                Retire(t, [Gate(m, dst, src, s) EXCEPT !.qf = TRUE])

\* QPTRACE keeps fewer qubits, and the source.
QPtrace(t, dst, src) ==
    LET m == vm[t] IN
    /\ Executes(t)
    /\ \/ Fault(t, m)
       \/ /\ m.q[src] # None /\ Room(m, 1)
          /\ \E s \in State :
                /\ s.qubits < StateIn(m, src).qubits
                /\ Retire(t, [Filled(m, dst, s) EXCEPT !.qf = TRUE])

\* k gates in a row: the handles between the first and the last are released.
Gates(m, k, s) ==
    [m EXCEPT !.states[m.next + k - 1] = s, !.next = @ + k]

\* With an empty mask a register keeps its state, or another one gets a clone.
\* (Faulty: another one gets the same handle.)
UnmaskedAliasing(m, dst, src) == SetQreg(m, dst, m.q[src])
Unmasked(m, dst, src) ==
    IF dst = src THEN m ELSE Filled(m, dst, StateIn(m, src))

\* QHADM, QFLIP, QPHASE.
QMasked(t, dst, src) ==
    LET m == vm[t] IN
    /\ Executes(t)
    /\ \/ m.q[src] = None /\ Fault(t, m)
       \/ /\ m.q[src] # None
          /\ dst = src \/ Room(m, 1)
          /\ Retire(t, [Unmasked(m, dst, src) EXCEPT !.qf = TRUE])
       \/ /\ m.q[src] # None
          /\ \E k \in 1 .. StateIn(m, src).qubits, s \in Of(StateIn(m, src).qubits) :
                /\ Room(m, k)
                /\ Retire(t, [SetQreg(Gates(m, k, s), dst, m.next + k - 1)
                                EXCEPT !.qf = TRUE])

-----------------------------------------------------------------------------
(***************************************************************************)
(* Instructions that use up their source.                                  *)
(***************************************************************************)
\* A register is rebuilt from a state that is used up.  The checks come first, so
\* that an error leaves the source in its place.
Rebuild(t, dst, src) ==
    LET m == vm[t] IN
    /\ Executes(t)
    /\ \/ Fault(t, m)
       \/ /\ m.q[src] # None /\ Room(m, 1)
          /\ \E s \in Of(StateIn(m, src).qubits) :
                Retire(t, [Filled(Consumed(m, src), dst, s) EXCEPT !.qf = TRUE])

QMeas(t, src) == Rebuild(t, src, src)
QReset(t, dst, src) == Rebuild(t, dst, src)
QPreps(t, dst) == Rebuild(t, dst, dst)

\* QOBSERVE; PROB finds its index out of range when the state is already gone.
QObserve(t, src) ==
    LET m == vm[t] IN
    /\ Executes(t)
    /\ \/ m.q[src] = None /\ Fault(t, m)
       \/ m.q[src] # None /\ Fault(t, Consumed(m, src))
       \/ m.q[src] # None /\ Retire(t, [Consumed(m, src) EXCEPT !.qf = FALSE])

\* QTENSOR takes its sources one after the other.  The first goes back when the
\* second is not there (faulty: it is lost); a product that is too large destroys both,
\* and mixed states have a lower limit than pure ones.
RefusedLosingFirst(m, a) == TakeQreg(m, a)
Refused(m, a) == m
QTensor(t, dst, a, b) ==
    LET m == vm[t]
        both == Consumed(Consumed(m, a), b)
        qubits == StateIn(m, a).qubits + StateIn(m, b).qubits
    IN
    /\ Executes(t)
    /\ \/ m.q[a] = None /\ Fault(t, m)
       \/ m.q[a] # None /\ (a = b \/ m.q[b] = None) /\ Fault(t, Refused(m, a))
       \/ /\ a # b /\ m.q[a] # None /\ m.q[b] # None
          /\ \/ Fault(t, both)
             \/ /\ qubits <= QubitLimit /\ Room(m, 1)
                /\ \E s \in Of(qubits) :
                      Retire(t, [Filled(both, dst, s) EXCEPT !.qf = TRUE])

-----------------------------------------------------------------------------
(***************************************************************************)
(* Moves.                                                                  *)
(***************************************************************************)
QXch(t, a, b) ==
    LET m == vm[t] IN
    /\ Executes(t)
    /\ IF m.q[a] = None \/ m.q[b] = None
       THEN Fault(t, m)
       ELSE Retire(t, [m EXCEPT !.q[a] = m.q[b], !.q[b] = m.q[a]])

\* The Bell pairs: is none left (faulty: nobody looks), and what is left after one more
\* is used.
NeverExhausted(m) == FALSE
Exhausted(m) == Budget # 0 /\ m.pairs = 0
Paid(m) == IF Budget = 0 THEN m.pairs ELSE m.pairs - 1

\* QLOAD moves a state from QMEM to a register; when no pair is left the handle
\* goes back into its slot.
Loaded(m, dst, slot, s) ==
    LET h == m.mem[slot] IN
    [SetQreg(m, dst, h) EXCEPT !.mem[slot] = None, !.states[h] = s,
                               !.pairs = Paid(m), !.qf = TRUE]
QLoad(t, dst, slot) ==
    LET m == vm[t] IN
    /\ Executes(t)
    /\ \/ (m.mem[slot] = None \/ Exhausted(m)) /\ Fault(t, m)
       \/ /\ m.mem[slot] # None /\ ~Exhausted(m)
          /\ \E s \in Teleported(m.states[m.mem[slot]]) :
                Retire(t, Loaded(m, dst, slot, s))

\* QSTORE moves a state from a register to QMEM; QF stays as it was.
Stored(m, src, slot, s) ==
    LET h == m.q[src] IN
    [Release(m, m.mem[slot]) EXCEPT !.q[src] = None, !.mem[slot] = h,
                                    !.states[h] = s, !.pairs = Paid(m)]
QStore(t, src, slot) ==
    LET m == vm[t] IN
    /\ Executes(t)
    /\ \/ (m.q[src] = None \/ Exhausted(m)) /\ Fault(t, m)
       \/ /\ m.q[src] # None /\ ~Exhausted(m)
          /\ \E s \in Teleported(StateIn(m, src)) :
                Retire(t, Stored(m, src, slot, s))

-----------------------------------------------------------------------------
(***************************************************************************)
(* HFORK and HMERGE.                                                       *)
(***************************************************************************)
\* The machine that thread 0 goes on with, and every worker starts with.
\* (Faulty: the registers stay.)
SplitKeepingRegisters(m) == [m EXCEPT !.forked = TRUE]
Split(m) == [m EXCEPT !.q = Empty, !.forked = TRUE]

HFork(t) ==
    LET m == vm[t] IN
    /\ Executes(t)
    /\ \/ (m.forked \/ (threads > 1 /\ m.qf)) /\ Fault(t, m)
       \/ ~m.forked /\ threads = 1 /\ Retire(t, [m EXCEPT !.forked = TRUE])
       \/ /\ t = 0 /\ threads > 1 /\ ~m.forked /\ ~m.qf
          /\ vm' = [w \in Tids |-> IF w < threads THEN Split(m) ELSE vm[w]]
          /\ run' = [w \in Tids |-> IF w < threads THEN "exec" ELSE "idle"]
          /\ qfile' = m.q
          /\ UNCHANGED <<threads, overwritten>>

\* Thread 0 waits for the workers; one that failed makes HMERGE fail.
Joined == \A w \in Tids \ {0} : run[w] # "exec"
JoinError == \E w \in Tids \ {0} : run[w] = "failed"

HMerge(t) ==
    LET m == vm[t]
        merged == [m EXCEPT !.forked = FALSE]
    IN
    /\ Executes(t)
    /\ \/ ~m.forked /\ Fault(t, m)
       \/ m.forked /\ threads = 1 /\ Retire(t, merged)
       \/ m.forked /\ threads > 1 /\ m.qf /\ Fault(t, merged)
       \/ m.forked /\ t # 0 /\ ~m.qf /\ Stop(t)
       \/ /\ m.forked /\ threads > 1 /\ t = 0 /\ ~m.qf /\ Joined
          /\ IF JoinError
             THEN Fault(t, merged)
             ELSE /\ vm' = [vm EXCEPT ![0] = [merged EXCEPT !.q = qfile]]
                  /\ qfile' = Empty
                  /\ overwritten' = overwritten \cup ({m.q[r] : r \in QRegs} \ {None})
                  /\ UNCHANGED <<threads, run>>

-----------------------------------------------------------------------------
Instruction(t) ==
    \/ \E a \in QRegs : QPrep(t, a) \/ QMeas(t, a) \/ QPreps(t, a) \/ QObserve(t, a)
    \/ \E a, b \in QRegs :
          \/ QKernel(t, a, b) \/ QPtrace(t, a, b) \/ QMasked(t, a, b)
          \/ QReset(t, a, b) \/ QXch(t, a, b)
    \/ \E dst, a, b \in QRegs : QTensor(t, dst, a, b)
    \/ \E r \in QRegs, s \in Slots : QLoad(t, r, s) \/ QStore(t, r, s)
    \/ HFork(t) \/ HMerge(t)

Next == \E t \in Tids : Instruction(t) \/ Stop(t)

Spec == Init /\ [][Next]_vars

-----------------------------------------------------------------------------
\* Every variable has its type.
TypeOK ==
    /\ threads \in 1 .. N
    /\ vm \in [Tids -> Machine]
    /\ run \in [Tids -> {"idle", "exec", "ended", "failed"}]
    /\ qfile \in [QRegs -> Handle]
    /\ overwritten \subseteq Handles

\* The handles that thread t can still reach, the SharedQuantumFile's included.
InFile == {qfile[r] : r \in QRegs} \ {None}
Reachable(t) ==
    ({vm[t].q[r] : r \in QRegs} \cup {vm[t].mem[s] : s \in Slots} \cup InFile) \ {None}

\* A worker's machine is gone when the worker is.
Current(t) == t = 0 \/ run[t] = "exec"

\* A handle in a register, in QMEM or in the shared file is in the table: no
\* instruction releases a state that something still refers to, whatever the error
\* path or the thread it is on (qop.rs, context.rs set_qreg, hybrid.rs).
HandlesLive ==
    \A t \in Tids : Current(t) => \A h \in Reachable(t) : vm[t].states[h] # None

\* No state has two owners: two registers, two slots, a register and a slot, or one
\* of these and the shared file never hold the same handle (a gate, a measurement
\* or the noise of a teleportation on one would change the other).
SingleOwner ==
    \A t \in Tids : Current(t) =>
        LET m == vm[t] IN
        /\ \A a, b \in QRegs : a # b =>
              /\ m.q[a] # None => m.q[a] # m.q[b]
              /\ qfile[a] # None => qfile[a] # qfile[b]
        /\ \A a, b \in Slots : a # b /\ m.mem[a] # None => m.mem[a] # m.mem[b]
        /\ \A a \in QRegs, s \in Slots :
              m.mem[s] # None => m.mem[s] # m.q[a] /\ m.mem[s] # qfile[a]
        /\ \A a, b \in QRegs : m.q[a] # None => m.q[a] # qfile[b]

\* Nothing leaks: a state in the table can be reached, error paths included, except
\* the ones in registers that HMERGE overwrote without set_qreg (hybrid.rs:167).
NothingLeaks ==
    \A t \in Tids : Current(t) =>
        \A h \in Handles :
            vm[t].states[h] # None => h \in Reachable(t) \cup overwritten

\* What the cells of the instruction set hold.
CellOf(m, h) == IF h = None THEN None ELSE m.states[h]
Cells == INSTANCE QuantumCells WITH
            reg <- [t \in Tids |-> [r \in QRegs |-> CellOf(vm[t], vm[t].q[r])]],
            mem <- [t \in Tids |-> [s \in Slots |-> CellOf(vm[t], vm[t].mem[s])]],
            filed <- [r \in QRegs |-> CellOf(vm[0], qfile[r])],
            pairs <- [t \in Tids |-> vm[t].pairs]

\* Handles and tables are invisible: seen through them, every instruction changes the
\* cells it names as the instruction set says and no other, and a region gives thread 0
\* its registers back with the states they had.
ImplementsCells == Cells!Spec

=============================================================================
