---------------------------- MODULE QuantumCells ----------------------------
(***************************************************************************)
(* What the instruction set promises of the quantum registers and the      *)
(* quantum memory: every register and every slot is a cell of its own that *)
(* holds a state or nothing, and an instruction changes the cells it names *)
(* and no other.  There are no handles and no back end here.               *)
(***************************************************************************)
EXTENDS QuantumState

CONSTANTS
    N,              \* most threads of a parallel region
    QRegs,          \* the Q registers
    Slots,          \* the QMEM slots
    Budget          \* Bell pairs of a run; 0 for no limit

VARIABLES
    reg,            \* reg[t][r]: what thread t has in register r
    mem,            \* mem[t][s]: what thread t has in slot s
    filed,          \* thread 0's registers while a parallel region is open
    pairs           \* pairs[t]: Bell pairs that thread t has left

cells == <<reg, mem, filed, pairs>>

Tids == 0 .. N - 1
Empty == [r \in QRegs |-> None]

Init ==
    /\ reg = [t \in Tids |-> Empty]
    /\ mem = [t \in Tids |-> [s \in Slots |-> None]]
    /\ filed = Empty
    /\ pairs = [t \in Tids |-> Budget]

-----------------------------------------------------------------------------
\* A state from nothing, or from a state that stays where it is.
Prepare(t, dst) == \E s \in State : reg' = [reg EXCEPT ![t][dst] = s]

\* A state from one or two that are used up.
Rebuild(t, dst, src) ==
    /\ reg[t][src] # None
    /\ \E s \in Of(reg[t][src].qubits) :
          reg' = [reg EXCEPT ![t][src] = None, ![t][dst] = s]

Join(t, dst, a, b) ==
    /\ a # b /\ reg[t][a] # None /\ reg[t][b] # None
    /\ \E s \in Of(reg[t][a].qubits + reg[t][b].qubits) :
          reg' = [reg EXCEPT ![t][a] = None, ![t][b] = None, ![t][dst] = s]

Observe(t, src) ==
    /\ reg[t][src] # None
    /\ reg' = [reg EXCEPT ![t][src] = None]

\* A product that is refused destroys both of its sources.
Destroy(t, a, b) ==
    /\ a # b /\ reg[t][a] # None /\ reg[t][b] # None
    /\ reg' = [reg EXCEPT ![t][a] = None, ![t][b] = None]

Exchange(t, a, b) ==
    reg' = [reg EXCEPT ![t][a] = reg[t][b], ![t][b] = reg[t][a]]

Compute(t) ==
    /\ UNCHANGED <<mem, filed, pairs>>
    /\ \/ \E dst \in QRegs : Prepare(t, dst)
       \/ \E src \in QRegs : Observe(t, src)
       \/ \E a, b \in QRegs :
             \/ Rebuild(t, a, b) \/ Destroy(t, a, b) \/ Exchange(t, a, b)
       \/ \E dst, a, b \in QRegs : Join(t, dst, a, b)

\* A state moves between a register and a slot and takes a Bell pair with it.
Pay(t) ==
    IF Budget = 0 THEN UNCHANGED pairs
                  ELSE pairs[t] > 0 /\ pairs' = [pairs EXCEPT ![t] = @ - 1]

Load(t, dst, slot) ==
    /\ mem[t][slot] # None
    /\ Pay(t) /\ UNCHANGED filed
    /\ mem' = [mem EXCEPT ![t][slot] = None]
    /\ \E s \in Teleported(mem[t][slot]) : reg' = [reg EXCEPT ![t][dst] = s]

Store(t, src, slot) ==
    /\ reg[t][src] # None
    /\ Pay(t) /\ UNCHANGED filed
    /\ reg' = [reg EXCEPT ![t][src] = None]
    /\ \E s \in Teleported(reg[t][src]) : mem' = [mem EXCEPT ![t][slot] = s]

\* A region opens with empty registers and a memory for every thread; when it is
\* over, thread 0 has the registers it had before.
Fork(n) ==
    /\ filed' = reg[0]
    /\ reg' = [t \in Tids |-> IF t < n THEN Empty ELSE reg[t]]
    /\ mem' = [t \in Tids |-> IF t < n THEN mem[0] ELSE mem[t]]
    /\ pairs' = [t \in Tids |-> IF t < n THEN pairs[0] ELSE pairs[t]]

Merge ==
    /\ reg' = [reg EXCEPT ![0] = filed]
    /\ filed' = Empty
    /\ UNCHANGED <<mem, pairs>>

\* What a worker has disappears with it.
Vanish(t) ==
    /\ reg' = [reg EXCEPT ![t] = Empty]
    /\ mem' = [mem EXCEPT ![t] = [s \in Slots |-> None]]
    /\ pairs' = [pairs EXCEPT ![t] = Budget]
    /\ UNCHANGED filed

\* An instruction that is refused leaves every cell as it was.
Refuse == UNCHANGED cells

Next ==
    \/ Refuse
    \/ \E t \in Tids \ {0} : Vanish(t)
    \/ \E t \in Tids :
          \/ Compute(t)
          \/ \E r \in QRegs, s \in Slots : Load(t, r, s) \/ Store(t, r, s)
    \/ \E n \in 2 .. N : Fork(n)
    \/ Merge

Spec == Init /\ [][Next]_cells
=============================================================================
