---------------------------- MODULE CircuitBackend ----------------------------
(* The quantum instructions on a QPU: CircuitBackend gathers them in a circuit  *)
(* and compiles and submits it when a register is observed.  A handle stands   *)
(* for a list of wires of that circuit, not for a state.                       *)
EXTENDS Integers, Sequences, SequencesExt, FiniteSets, Functions

CONSTANTS
    QRegs,      \* the Q registers in use
    Slots,      \* the QMEM slots in use
    MaxPrep,    \* qubits of a preparation
    MaxQubits,  \* bound: of a register
    MaxOps      \* bound: operations that are buffered

ASSUME MaxPrepAssumption == MaxPrep \in Nat

None == -1

VARIABLES
    q, mem,     \* ExecutionContext.qregs and qmem: handles
    qf,         \* PSW.qf
    wires,      \* handle_wires, with handle_num_qubits its lengths
    fresh,      \* the handles of handle_dist
    evolved,    \* evolved_handles
    nextHandle,
    nextWire,   \* wire_allocator
    buffer,     \* the MicroProgram, or none (no operation is buffered then)
    submitted,  \* the last circuit handed to the QPU, and what was observed
    ended,      \* an instruction failed
    ids,        \* history: operations buffered so far
    story,      \* history: what was done to the qubits of each handle
    clean       \* history: see QGate, Taking

registers == <<q, mem, qf>>
handles == <<wires, fresh, evolved, nextHandle>>
history == <<ids, story, clean>>
vars == <<registers, handles, nextWire, buffer, submitted, ended, history>>

NoProgram == [ops |-> <<>>, wires |-> 0]
Nothing == [program |-> NoProgram, observed |-> <<>>, story |-> {}, clean |-> FALSE]

Init ==
    /\ q = [r \in QRegs |-> None] /\ mem = [s \in Slots |-> None] /\ qf = FALSE
    /\ wires = <<>> /\ fresh = {} /\ evolved = {} /\ nextHandle = 0
    /\ nextWire = 0 /\ buffer = NoProgram /\ submitted = Nothing /\ ended = FALSE
    /\ ids = 0 /\ story = <<>> /\ clean = TRUE

Live == DOMAIN wires
Greater(a, b) == IF a > b THEN a ELSE b
Only(f, S) == [h \in S |-> f[h]]
With(f, h, v) == [k \in DOMAIN f \cup {h} |-> IF k = h THEN v ELSE f[k]]

(* What is in a register or in QMEM; two of them with a wire in common.       *)
Held == (Range(q) \cup Range(mem)) \ {None}
Shares(g, h) == Range(wires[g]) \cap Range(wires[h]) # {}

Fault ==
    /\ ended' = TRUE
    /\ UNCHANGED <<registers, handles, nextWire, buffer, submitted, history>>

Runs == ~ended

(* ensure_buffer().push: the operation has the next number of all.            *)
Pushed(name, on) == [buffer EXCEPT !.ops = Append(@, [name |-> name, wires |-> on, id |-> ids])]

(* alloc: new wires after all those given out since the last submission.      *)
(* Faulty: what has been given out is not counted.                            *)
AllocFromFirst(n) == [i \in 1..n |-> i - 1]
Alloc(n) == [i \in 1..n |-> nextWire + i - 1]

(* set_qreg releases the old occupant of r, once it has been put down to what *)
(* is in the tables W, D, E then.                                             *)
Placed(r, h, W, D, E, S) ==
    LET gone == {q[r]} IN
    /\ q' = [q EXCEPT ![r] = h]
    /\ wires' = Only(W, DOMAIN W \ gone)
    /\ story' = Only(S, DOMAIN S \ gone)
    /\ fresh' = D \ gone
    /\ evolved' = E \ gone

------------------------------------------------------------------------------
(* Preparation, and the clone of a register nothing has been done to.         *)

(* A preparation is pushed on n new wires and register r gets their handle.   *)
Prepared(r, n, D) ==
    LET on == Alloc(n)
        more == [Pushed("prep", on) EXCEPT !.wires = Greater(@, nextWire + n)]
    IN  /\ ids < MaxOps
        /\ buffer' = more
        /\ nextWire' = nextWire + n
        /\ nextHandle' = nextHandle + 1
        /\ ids' = ids + 1
        /\ Placed(r, nextHandle, With(wires, nextHandle, on), D, evolved,
                  With(story, nextHandle, {ids}))
        /\ qf' = TRUE
        /\ UNCHANGED <<mem, submitted, ended>>

(* QPREP, QPREPR, QPREPN.                                                     *)
QPrep(r) ==
    /\ Runs
    /\ \E n \in 1..MaxPrep : Prepared(r, n, fresh \cup {nextHandle})
    /\ UNCHANGED clean

(* QHADM, QFLIP, QPHASE with an empty mask and another destination: the mark  *)
(* of what has been evolved is on the handle a gate was applied to, and its   *)
(* result is another handle.                                                  *)
Clone(dst, src) ==
    LET h == q[src] IN
    /\ Runs /\ dst # src /\ h # None
    /\ IF h \in evolved THEN Fault
       ELSE /\ Prepared(dst, Len(wires[h]), fresh)
            /\ clean' = (clean /\ Cardinality(story[h]) = 1)

------------------------------------------------------------------------------
(* Gates.  The result is a handle for the same wires.                         *)

(* QKERNEL and its kin, QCUSTOM, QROT, QHADM, QCNOT...: a kernel is on all    *)
(* wires, a gate on one or two.  The source keeps its handle, so that two     *)
(* registers stand for the same wires when the destination is another one.    *)
QGate(dst, src) ==
    LET h == q[src] IN
    /\ Runs
    /\ \/ Fault
       \/ /\ h # None
          /\ ids < MaxOps
          /\ \E on \in {wires[h]} \cup {<<w>> : w \in Range(wires[h])} : buffer' = Pushed("gate", on)
          /\ nextHandle' = nextHandle + 1
          /\ ids' = ids + 1
          /\ Placed(dst, nextHandle, With(wires, nextHandle, wires[h]), fresh, evolved \cup {h},
                    With(story, nextHandle, story[h] \cup {ids}))
          /\ qf' = TRUE
          /\ clean' = (clean /\ dst = src)
          /\ UNCHANGED <<mem, nextWire, submitted, ended>>

(* QPREPS: the old handle is taken from its register and never released.      *)
(* QMEAS and QRESET neither mark nor release it.                              *)
Taken(dst, src, name, on, marked) ==
    LET h == q[src] IN
    /\ ids < MaxOps
    /\ buffer' = Pushed(name, on)
    /\ nextHandle' = nextHandle + 1
    /\ ids' = ids + 1
    /\ LET gone == IF dst = src THEN {} ELSE {q[dst]}
           W == With(wires, nextHandle, wires[h])
           S == With(story, nextHandle, story[h] \cup {ids})
       IN  /\ wires' = Only(W, DOMAIN W \ gone)
           /\ story' = Only(S, DOMAIN S \ gone)
           /\ fresh' = fresh \ gone
           /\ evolved' = (evolved \cup marked) \ gone
    /\ q' = [q EXCEPT ![src] = None, ![dst] = nextHandle]
    /\ qf' = TRUE
    /\ UNCHANGED <<mem, nextWire, submitted, ended, clean>>

QPreps(r) ==
    /\ Runs /\ q[r] # None
    /\ \E n \in 1..Len(wires[q[r]]) : Taken(r, r, "product", SubSeq(wires[q[r]], 1, n), {q[r]})
QMeas(r) ==
    /\ Runs /\ q[r] # None
    /\ \E w \in Range(wires[q[r]]) : Taken(r, r, "measqubit", <<w>>, {})
QReset(dst, src) ==
    /\ Runs /\ q[src] # None
    /\ \E w \in Range(wires[q[src]]) : Taken(dst, src, "reset", <<w>>, {})

(* QTENSOR: the wires of the one after those of the other; no operation.      *)
QTensor(dst, a, b) ==
    LET g == q[a]
        h == q[b]
        W == With(Only(wires, Live \ {g, h}), nextHandle, wires[g] \o wires[h])
        S == With(Only(story, Live \ {g, h}), nextHandle, story[g] \cup story[h])
        old == {q[dst]}
    IN  /\ Runs
        /\ IF a = b \/ g = None \/ h = None THEN Fault
           ELSE /\ Len(wires[g]) + Len(wires[h]) <= MaxQubits
                /\ nextHandle' = nextHandle + 1
                /\ q' = [q EXCEPT ![a] = None, ![b] = None, ![dst] = nextHandle]
                /\ wires' = Only(W, DOMAIN W \ old)
                /\ story' = Only(S, DOMAIN S \ old)
                /\ fresh' = fresh \ ({g, h} \cup old)
                /\ evolved' = (evolved \ ({g, h} \cup old)) \cup {nextHandle}
                /\ qf' = TRUE
                /\ UNCHANGED <<mem, nextWire, buffer, submitted, ended, ids, clean>>

------------------------------------------------------------------------------
(* Faulty: the next circuit begins with the operations of this one.           *)
TakingACopy(r) ==
    LET h == q[r]
        whole == [ops |-> buffer.ops, wires |-> Greater(buffer.wires, nextWire)]
    IN  /\ nextWire' = 0
        /\ q' = [q EXCEPT ![r] = None]
        /\ submitted' = [program |-> whole, observed |-> wires[h], story |-> story[h],
                         clean |-> clean]
        /\ clean' = (Held = {h})
        /\ UNCHANGED buffer
(* QOBSERVE: the buffer is taken with the measurement pushed on it, the wires *)
(* begin again at 0, and the circuit is compiled and submitted.  An error of   *)
(* either leaves the handle in the tables and the register empty.             *)
Taking(r) ==
    LET h == q[r]
        on == wires[h]
        whole == [ops |-> Append(buffer.ops, [name |-> "measure", wires |-> on, id |-> ids]),
                  wires |-> Greater(buffer.wires, Greater(nextWire, Last(on) + 1))]
    IN  /\ buffer' = NoProgram
        /\ nextWire' = 0
        /\ q' = [q EXCEPT ![r] = None]
        /\ submitted' = [program |-> whole, observed |-> on, story |-> story[h], clean |-> clean]
        /\ clean' = (Held = {h})

QObserve(r) ==
    LET h == q[r] IN
    /\ Runs /\ h # None
    /\ Taking(r)
    /\ \/ /\ ended' = TRUE
          /\ UNCHANGED <<handles, story, qf>>
       \/ /\ wires' = Only(wires, Live \ {h})
          /\ story' = Only(story, Live \ {h})
          /\ fresh' = fresh \ {h}
          /\ evolved' = evolved \ {h}
          /\ qf' = FALSE
          /\ UNCHANGED <<nextHandle, ended>>
    /\ UNCHANGED <<mem, ids>>

(* QXCH, QSTORE, QLOAD move handles; the old occupant is released.            *)
QXch(a, b) ==
    /\ Runs
    /\ IF q[a] = None \/ q[b] = None THEN Fault
       ELSE /\ q' = [q EXCEPT ![a] = q[b], ![b] = q[a]]
            /\ UNCHANGED <<mem, qf, handles, nextWire, buffer, submitted, ended, history>>
QStore(r, s) ==
    LET gone == {mem[s]} IN
    /\ Runs /\ q[r] # None
    /\ mem' = [mem EXCEPT ![s] = q[r]]
    /\ q' = [q EXCEPT ![r] = None]
    /\ wires' = Only(wires, Live \ gone) /\ story' = Only(story, Live \ gone)
    /\ fresh' = fresh \ gone /\ evolved' = evolved \ gone
    /\ UNCHANGED <<qf, nextHandle, nextWire, buffer, submitted, ended, ids, clean>>
QLoad(r, s) ==
    /\ Runs /\ mem[s] # None
    /\ Placed(r, mem[s], wires, fresh, evolved, story)
    /\ mem' = [mem EXCEPT ![s] = None]
    /\ qf' = TRUE
    /\ UNCHANGED <<nextHandle, nextWire, buffer, submitted, ended, ids, clean>>

(* HFORK, refused while QF is set: a worker goes on with empty registers, a    *)
(* copy of QMEM and of the tables, and no buffer.                             *)
ForkWorker ==
    /\ Runs /\ ~qf
    /\ q' = [r \in QRegs |-> None]
    /\ buffer' = NoProgram
    /\ UNCHANGED <<mem, qf, handles, nextWire, submitted, ended, history>>

Next ==
    \/ \E a \in QRegs : QPrep(a) \/ QPreps(a) \/ QMeas(a) \/ QObserve(a)
    \/ \E a, b \in QRegs : QGate(a, b) \/ Clone(a, b) \/ QReset(a, b) \/ QXch(a, b)
    \/ \E a, b, c \in QRegs : QTensor(a, b, c)
    \/ \E a \in QRegs, s \in Slots : QStore(a, s) \/ QLoad(a, s)
    \/ ForkWorker

Spec == Init /\ [][Next]_vars

------------------------------------------------------------------------------
(* As long as every register is either observed or used up before the circuit *)
(* is submitted, and no gate leaves its source behind, no two registers share *)
(* a wire, whatever is prepared, cloned, joined, measured and moved.          *)
SeparateWires ==
    clean => /\ \A g, h \in Held : g # h => ~Shares(g, h)
             /\ \A h \in Held : \A w \in Range(wires[h]) : w < nextWire

(* The circuit has room for every wire that it names.                         *)
NumWiresCover ==
    \A k \in DOMAIN submitted.program.ops :
        \A w \in Range(submitted.program.ops[k].wires) : w < submitted.program.wires

(* Under the same rule the circuit submitted does to the observed qubits what *)
(* the program did to the register, nothing less and nothing of another one,  *)
(* and it has room for every wire that it names.                              *)
ObservedWhole ==
    submitted.clean =>
        LET touching == {k \in DOMAIN submitted.program.ops :
                LET o == submitted.program.ops[k]
                IN  o.name # "measure" /\ Range(o.wires) \cap Range(submitted.observed) # {}}
        IN  /\ {submitted.program.ops[k].id : k \in touching} = submitted.story
            /\ NumWiresCover

=============================================================================
