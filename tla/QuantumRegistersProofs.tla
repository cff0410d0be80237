----------------------- MODULE QuantumRegistersProofs -----------------------
(***************************************************************************)
(* Proofs about QuantumRegisters for every number of threads, registers,   *)
(* slots and handles, and every Bell budget.                               *)
(***************************************************************************)
EXTENDS QuantumRegisters, TLAPS

-----------------------------------------------------------------------------
(***************************************************************************)
(* Ownership on one machine: q and mem are its registers and slots, f the  *)
(* shared file, states the back end's table, next the next handle, and o   *)
(* the handles that HMERGE has overwritten.                                *)
(***************************************************************************)
Regs == [QRegs -> Handle]
Mems == [Slots -> Handle]
Table == [Handles -> State \cup {None}]

\* A handle that has not been given out has no state.
Fresh(states, next) == \A h \in Handles : h >= next => states[h] = None

Live(q, mem, f, states) ==
    /\ \A r \in QRegs : q[r] # None => states[q[r]] # None
    /\ \A s \in Slots : mem[s] # None => states[mem[s]] # None
    /\ \A r \in QRegs : f[r] # None => states[f[r]] # None

Single(q, mem, f) ==
    /\ \A a, b \in QRegs : a # b => /\ q[a] # None => q[a] # q[b]
                                    /\ f[a] # None => f[a] # f[b]
    /\ \A a, b \in Slots : a # b /\ mem[a] # None => mem[a] # mem[b]
    /\ \A a \in QRegs, s \in Slots : mem[s] # None => mem[s] # q[a] /\ mem[s] # f[a]
    /\ \A a, b \in QRegs : q[a] # None => q[a] # f[b]

Tight(q, mem, f, states, o) ==
    \A h \in Handles : states[h] # None =>
        \/ \E r \in QRegs : q[r] = h
        \/ \E s \in Slots : mem[s] = h
        \/ \E r \in QRegs : f[r] = h
        \/ h \in o

Owned(q, mem, f, states, next, o) ==
    /\ Fresh(states, next)
    /\ Live(q, mem, f, states)
    /\ Single(q, mem, f)
    /\ Tight(q, mem, f, states, o)

\* None is neither a handle nor a state.
LEMMA NoneApart == None \notin Handles /\ None \notin State
<1>1. Handles \subseteq Nat
  BY SizesAssumption DEF Handles
<1>2. State \subseteq [qubits : Nat, val : Values]
  BY QubitLimitAssumption DEF State
<1> QED BY <1>1, <1>2, NoneAssumption

\* A new machine owns nothing.
LEMMA NothingOwned ==
    ASSUME NEW f \in Regs, NEW o, f = Empty
    PROVE  Owned(Empty, [s \in Slots |-> None], f, [h \in Handles |-> None], 0, o)
BY DEF Owned, Fresh, Live, Single, Tight, Empty

\* A new handle replaces the occupant of register r (set_qreg).
LEMMA OwnedFill ==
    ASSUME NEW q \in Regs, NEW mem \in Mems, NEW f \in Regs, NEW states \in Table,
           NEW next \in Nat, NEW o, Owned(q, mem, f, states, next, o),
           NEW h \in Handles, h >= next, NEW r \in QRegs, NEW s \in State,
           NEW new \in Table,
           new = [x \in Handles |-> IF x = q[r] THEN None
                                    ELSE IF x = h THEN s ELSE states[x]]
    PROVE  Owned([q EXCEPT ![r] = h], mem, f, new, h + 1, o)
<1> DEFINE p == [q EXCEPT ![r] = h]
<1>0. h # None /\ s # None /\ states[h] = None /\ h \in Nat /\ Handles \subseteq Nat
  BY NoneApart, SizesAssumption DEF Owned, Fresh, Handles
<1>1. /\ \A x \in QRegs : q[x] # h /\ f[x] # h
      /\ \A x \in Slots : mem[x] # h
  BY <1>0 DEF Owned, Live
<1>2. \A x \in QRegs : p[x] = IF x = r THEN h ELSE q[x]
  BY DEF Regs
<1>3. Fresh(new, h + 1)
  <2>1. ASSUME NEW x \in Handles, x >= h + 1
        PROVE  x # h /\ x >= next
    BY <1>0, <2>1
  <2> QED BY <2>1 DEF Owned, Fresh
<1>4. Live(p, mem, f, new)
  <2>1. \A x \in QRegs : p[x] # None => new[p[x]] # None
    BY <1>0, <1>1, <1>2 DEF Owned, Live, Single, Regs, Handle
  <2>2. \A x \in Slots : mem[x] # None => new[mem[x]] # None
    BY <1>0, <1>1 DEF Owned, Live, Single, Mems, Handle
  <2>3. \A x \in QRegs : f[x] # None => new[f[x]] # None
    BY <1>0, <1>1 DEF Owned, Live, Single, Regs, Handle
  <2> QED BY <2>1, <2>2, <2>3 DEF Live
<1>5. Single(p, mem, f)
  BY <1>1, <1>2 DEF Owned, Single
<1>6. Tight(p, mem, f, new, o)
  BY <1>2 DEF Owned, Tight
<1> QED BY <1>3, <1>4, <1>5, <1>6 DEF Owned

\* The occupant of register r is used up.
LEMMA OwnedTake ==
    ASSUME NEW q \in Regs, NEW mem \in Mems, NEW f \in Regs, NEW states \in Table,
           NEW next \in Nat, NEW o, Owned(q, mem, f, states, next, o),
           NEW r \in QRegs,
           NEW new \in Table,
           new = [x \in Handles |-> IF x = q[r] THEN None ELSE states[x]]
    PROVE  Owned([q EXCEPT ![r] = None], mem, f, new, next, o)
<1> DEFINE p == [q EXCEPT ![r] = None]
<1>2. \A x \in QRegs : p[x] = IF x = r THEN None ELSE q[x]
  BY DEF Regs
<1>3. Fresh(new, next)
  BY DEF Owned, Fresh
<1>4. Live(p, mem, f, new)
  <2>1. \A x \in QRegs : p[x] # None => new[p[x]] # None
    BY <1>2 DEF Owned, Live, Single, Regs, Handle
  <2>2. \A x \in Slots : mem[x] # None => new[mem[x]] # None
    BY DEF Owned, Live, Single, Mems, Handle
  <2>3. \A x \in QRegs : f[x] # None => new[f[x]] # None
    BY DEF Owned, Live, Single, Regs, Handle
  <2> QED BY <2>1, <2>2, <2>3 DEF Live
<1>5. Single(p, mem, f)
  BY <1>2 DEF Owned, Single
<1>6. Tight(p, mem, f, new, o)
  BY <1>2 DEF Owned, Tight
<1> QED BY <1>3, <1>4, <1>5, <1>6 DEF Owned

\* Two registers exchange their handles (QXCH).
LEMMA OwnedExchange ==
    ASSUME NEW q \in Regs, NEW mem \in Mems, NEW f \in Regs, NEW states \in Table,
           NEW next \in Nat, NEW o, Owned(q, mem, f, states, next, o),
           NEW a \in QRegs, NEW b \in QRegs
    PROVE  Owned([q EXCEPT ![a] = q[b], ![b] = q[a]], mem, f, states, next, o)
<1> DEFINE p == [q EXCEPT ![a] = q[b], ![b] = q[a]]
<1>1. \A x \in QRegs : p[x] = IF x = b THEN q[a] ELSE IF x = a THEN q[b] ELSE q[x]
  BY DEF Regs
<1> HIDE DEF p
<1>2. Live(p, mem, f, states)
  BY <1>1 DEF Owned, Live
<1>3. Single(p, mem, f)
  <2>0. /\ \A x, y \in QRegs : x # y /\ q[x] # None => q[x] # q[y]
        /\ \A x \in QRegs, y \in Slots : mem[y] # None => mem[y] # q[x]
    BY DEF Owned, Single
  <2>1. \A x, y \in QRegs : x # y /\ p[x] # None => p[x] # p[y]
    BY <1>1, <2>0
  <2>2. \A x \in QRegs, y \in Slots : mem[y] # None => mem[y] # p[x]
    BY <1>1, <2>0
  <2>3. \A x, y \in QRegs : p[x] # None => p[x] # f[y]
    BY <1>1 DEF Owned, Single
  <2> QED BY <2>1, <2>2, <2>3 DEF Owned, Single
<1>4. Tight(p, mem, f, states, o)
  <2>1. \A h : (\E x \in QRegs : q[x] = h) => \E x \in QRegs : p[x] = h
    BY <1>1
  <2> QED BY <2>1 DEF Owned, Tight
<1> QED BY <1>2, <1>3, <1>4 DEF Owned, p

\* The handle of a slot moves to a register, whose occupant is released (QLOAD).
LEMMA OwnedLoad ==
    ASSUME NEW q \in Regs, NEW mem \in Mems, NEW f \in Regs, NEW states \in Table,
           NEW next \in Nat, NEW o, Owned(q, mem, f, states, next, o),
           NEW r \in QRegs, NEW slot \in Slots, mem[slot] # None, NEW s \in State,
           NEW new \in Table,
           new = [x \in Handles |-> IF x = mem[slot] THEN s
                                    ELSE IF x = q[r] THEN None ELSE states[x]]
    PROVE  Owned([q EXCEPT ![r] = mem[slot]], [mem EXCEPT ![slot] = None], f, new, next, o)
<1> DEFINE p == [q EXCEPT ![r] = mem[slot]]
           w == [mem EXCEPT ![slot] = None]
<1>0. s # None /\ mem[slot] \in Handles /\ states[mem[slot]] # None
  BY NoneApart DEF Owned, Live, Mems, Handle
<1>1. /\ \A x \in QRegs : p[x] = IF x = r THEN mem[slot] ELSE q[x]
      /\ \A x \in Slots : w[x] = IF x = slot THEN None ELSE mem[x]
  BY DEF Regs, Mems
<1>2. Fresh(new, next)
  BY <1>0 DEF Owned, Fresh
<1>3. Live(p, w, f, new)
  <2>1. \A x \in QRegs : p[x] # None => new[p[x]] # None
    BY <1>0, <1>1 DEF Owned, Live, Single, Regs, Handle
  <2>2. \A x \in Slots : w[x] # None => new[w[x]] # None
    BY <1>0, <1>1 DEF Owned, Live, Single, Mems, Handle
  <2>3. \A x \in QRegs : f[x] # None => new[f[x]] # None
    BY <1>0 DEF Owned, Live, Single, Regs, Handle
  <2> QED BY <2>1, <2>2, <2>3 DEF Live
<1>4. Single(p, w, f)
  BY <1>1 DEF Owned, Single
<1>5. Tight(p, w, f, new, o)
  BY <1>1 DEF Owned, Tight
<1> QED BY <1>2, <1>3, <1>4, <1>5 DEF Owned

\* The handle of a register moves to a slot, whose occupant is released (QSTORE).
LEMMA OwnedStore ==
    ASSUME NEW q \in Regs, NEW mem \in Mems, NEW f \in Regs, NEW states \in Table,
           NEW next \in Nat, NEW o, Owned(q, mem, f, states, next, o),
           NEW r \in QRegs, NEW slot \in Slots, q[r] # None, NEW s \in State,
           NEW new \in Table,
           new = [x \in Handles |-> IF x = q[r] THEN s
                                    ELSE IF x = mem[slot] THEN None ELSE states[x]]
    PROVE  Owned([q EXCEPT ![r] = None], [mem EXCEPT ![slot] = q[r]], f, new, next, o)
<1> DEFINE p == [q EXCEPT ![r] = None]
           w == [mem EXCEPT ![slot] = q[r]]
<1>0. s # None /\ q[r] \in Handles /\ states[q[r]] # None
  BY NoneApart DEF Owned, Live, Regs, Handle
<1>1. /\ \A x \in QRegs : p[x] = IF x = r THEN None ELSE q[x]
      /\ \A x \in Slots : w[x] = IF x = slot THEN q[r] ELSE mem[x]
  BY DEF Regs, Mems
<1>2. Fresh(new, next)
  BY <1>0 DEF Owned, Fresh
<1>3. Live(p, w, f, new)
  <2>1. \A x \in QRegs : p[x] # None => new[p[x]] # None
    BY <1>0, <1>1 DEF Owned, Live, Single, Regs, Handle
  <2>2. \A x \in Slots : w[x] # None => new[w[x]] # None
    BY <1>0, <1>1 DEF Owned, Live, Single, Mems, Handle
  <2>3. \A x \in QRegs : f[x] # None => new[f[x]] # None
    BY <1>0 DEF Owned, Live, Single, Regs, Handle
  <2> QED BY <2>1, <2>2, <2>3 DEF Live
<1>4. Single(p, w, f)
  BY <1>1 DEF Owned, Single
<1>5. Tight(p, w, f, new, o)
  BY <1>1 DEF Owned, Tight
<1> QED BY <1>2, <1>3, <1>4, <1>5 DEF Owned

\* The registers move to the empty shared file (HFORK).
LEMMA OwnedFork ==
    ASSUME NEW q \in Regs, NEW mem \in Mems, NEW states \in Table,
           NEW next \in Nat, NEW o, Owned(q, mem, Empty, states, next, o)
    PROVE  Owned(Empty, mem, q, states, next, o)
<1>1. \A r \in QRegs : Empty[r] = None
  BY DEF Empty
<1>2. Live(Empty, mem, q, states)
  BY <1>1 DEF Owned, Live
<1>3. Single(Empty, mem, q)
  BY <1>1 DEF Owned, Single
<1>4. Tight(Empty, mem, q, states, o)
  BY <1>1, NoneApart DEF Owned, Tight
<1> QED BY <1>2, <1>3, <1>4 DEF Owned

\* The shared file moves back over the registers (HMERGE).
LEMMA OwnedMerge ==
    ASSUME NEW q \in Regs, NEW mem \in Mems, NEW f \in Regs, NEW states \in Table,
           NEW next \in Nat, NEW o, Owned(q, mem, f, states, next, o)
    PROVE  Owned(f, mem, Empty, states, next,
                 o \cup ({q[r] : r \in QRegs} \ {None}))
<1>1. \A r \in QRegs : Empty[r] = None
  BY DEF Empty
<1>2. Live(f, mem, Empty, states)
  BY <1>1 DEF Owned, Live
<1>3. Single(f, mem, Empty)
  BY <1>1 DEF Owned, Single
<1>4. Tight(f, mem, Empty, states, o \cup ({q[r] : r \in QRegs} \ {None}))
  BY <1>1, NoneApart DEF Owned, Tight
<1> QED BY <1>2, <1>3, <1>4 DEF Owned

-----------------------------------------------------------------------------
(***************************************************************************)
(* The same for machines and the operators of the instructions.            *)
(***************************************************************************)
Good(m, f, o) ==
    /\ m \in Machine
    /\ Owned(m.q, m.mem, f, m.states, m.next, o)

LEMMA MachineFields ==
    ASSUME NEW m \in Machine
    PROVE  /\ m.q \in Regs /\ m.mem \in Mems /\ m.states \in Table
           /\ m.next \in Nat /\ m.next <= MaxHandles
           /\ m.pairs \in 0 .. Budget /\ m.qf \in BOOLEAN /\ m.forked \in BOOLEAN
BY SizesAssumption DEF Machine, Regs, Mems, Table

\* What release does to the table; releasing nothing does nothing.
LEMMA ReleaseFields ==
    ASSUME NEW m \in Machine, NEW h \in Handle
    PROVE  Release(m, h) = [m EXCEPT !.states = [x \in Handles |->
                                IF x = h THEN None ELSE m.states[x]]]
<1>1. CASE h = None
  <2>1. m.states = [x \in Handles |-> IF x = h THEN None ELSE m.states[x]]
    BY <1>1, NoneApart DEF Machine
  <2> QED BY <1>1, <2>1 DEF Release, Machine
<1>2. CASE h # None
  BY <1>2 DEF Release, Machine
<1> QED BY <1>1, <1>2

\* The flags and the Bell pairs have no part in ownership.
LEMMA GoodFlags ==
    ASSUME NEW m, NEW f, NEW o, Good(m, f, o),
           NEW a \in BOOLEAN, NEW b \in BOOLEAN
    PROVE  /\ Good([m EXCEPT !.qf = a], f, o)
           /\ Good([m EXCEPT !.forked = b], f, o)
BY DEF Good, Machine

\* A new handle for register r: alloc or a row of gates, then set_qreg.
LEMMA GoodPut ==
    ASSUME NEW m, NEW f \in Regs, NEW o, Good(m, f, o),
           NEW h \in Handles, h >= m.next, NEW r \in QRegs, NEW s \in State
    PROVE  LET n == [m EXCEPT !.states[h] = s, !.next = h + 1]
           IN  /\ Good(SetQreg(n, r, h), f, o)
               /\ SetQreg(n, r, h).forked = m.forked
<1> DEFINE n == [m EXCEPT !.states[h] = s, !.next = h + 1]
<1> DEFINE new == [x \in Handles |-> IF x = m.q[r] THEN None
                                     ELSE IF x = h THEN s ELSE m.states[x]]
<1>1. m \in Machine /\ Owned(m.q, m.mem, f, m.states, m.next, o)
  BY DEF Good
<1>2. /\ n \in Machine /\ n.q = m.q /\ n.mem = m.mem /\ n.next = h + 1
      /\ n.states = [m.states EXCEPT ![h] = s] /\ n.forked = m.forked
  <2> DEFINE st == [m.states EXCEPT ![h] = s]
             nx == h + 1
  <2>1. st \in Table
    BY <1>1 DEF Machine, Table
  <2>2. nx \in 0 .. MaxHandles
    BY SizesAssumption DEF Handles
  <2>3. n = [m EXCEPT !.q = m.q, !.mem = m.mem, !.states = st, !.next = nx,
                      !.pairs = m.pairs, !.qf = m.qf, !.forked = m.forked]
    BY <1>1 DEF Machine
  <2> HIDE DEF st, nx, n
  <2>4. /\ n \in Machine /\ n.q = m.q /\ n.mem = m.mem /\ n.next = nx
        /\ n.states = st /\ n.forked = m.forked
    BY <1>1, <2>1, <2>2, <2>3 DEF Machine, Table
  <2> QED BY <2>4 DEF st, nx
<1> HIDE DEF n
<1>3. n.q[r] \in Handle /\ h \in Handle
  BY <1>2 DEF Machine, Handle
<1>4. [x \in Handles |-> IF x = n.q[r] THEN None ELSE n.states[x]] = new
  <2>1. \A x \in Handles : n.states[x] = IF x = h THEN s ELSE m.states[x]
    BY <1>1, <1>2 DEF Machine
  <2> QED BY <1>2, <2>1
<1>5. Release(n, n.q[r]) = [n EXCEPT !.states = new]
  <2>1. Release(n, n.q[r]) = [n EXCEPT !.states = [x \in Handles |->
                                  IF x = n.q[r] THEN None ELSE n.states[x]]]
    BY <1>2, <1>3, ReleaseFields
  <2> QED BY <1>4, <2>1
<1>6. new \in Table
  BY <1>1 DEF Machine, Table
<1>7. SetQreg(n, r, h) = [m EXCEPT !.states = new, !.next = h + 1,
                                   !.q = [m.q EXCEPT ![r] = h]]
  BY <1>1, <1>2, <1>5 DEF SetQreg, Machine, n
<1>8. SetQreg(n, r, h) \in Machine
  <2>1. [m.q EXCEPT ![r] = h] \in Regs
    BY <1>1, <1>3 DEF Machine, Regs
  <2>2. h + 1 \in 0 .. MaxHandles
    BY SizesAssumption DEF Handles
  <2> QED BY <1>1, <1>6, <1>7, <2>1, <2>2 DEF Machine, Table, Regs
<1>9. Owned([m.q EXCEPT ![r] = h], m.mem, f, new, h + 1, o)
  BY <1>1, <1>6, MachineFields, OwnedFill
<1>10. SetQreg(n, r, h).forked = m.forked
  BY <1>1, <1>7 DEF Machine
<1>11. /\ SetQreg(n, r, h).q = [m.q EXCEPT ![r] = h]
       /\ SetQreg(n, r, h).mem = m.mem
       /\ SetQreg(n, r, h).states = new
       /\ SetQreg(n, r, h).next = h + 1
  BY <1>1, <1>7 DEF Machine
<1> QED BY <1>8, <1>9, <1>10, <1>11 DEF Good, n

\* A new state in register r.
LEMMA GoodFilled ==
    ASSUME NEW m, NEW f \in Regs, NEW o, Good(m, f, o), Room(m, 1),
           NEW r \in QRegs, NEW s \in State
    PROVE  /\ Good([Filled(m, r, s) EXCEPT !.qf = TRUE], f, o)
           /\ [Filled(m, r, s) EXCEPT !.qf = TRUE].forked = m.forked
<1>1. m \in Machine
  BY DEF Good
<1>2. m.next \in Handles /\ m.next \in Nat
  BY <1>1, MachineFields, SizesAssumption DEF Room, Handles
<1>3. Alloc(m, s) = [m EXCEPT !.states[m.next] = s, !.next = m.next + 1]
  BY <1>1 DEF Alloc, Machine
<1>4. Alloc(m, s).q = m.q
  BY <1>1 DEF Alloc, Machine
<1>5. Good(Filled(m, r, s), f, o) /\ Filled(m, r, s).forked = m.forked
  <2> DEFINE h == m.next
             n == [m EXCEPT !.states[h] = s, !.next = h + 1]
  <2>1. h \in Handles /\ h >= m.next
    BY <1>2
  <2> HIDE DEF h
  <2>2. /\ Good(SetQreg(n, r, h), f, o)
        /\ SetQreg(n, r, h).forked = m.forked
    BY <2>1, GoodPut
  <2> QED BY <1>3, <2>2 DEF Filled, h
<1> QED BY <1>5, GoodFlags DEF Good, Machine

\* A row of k gates, of which the last handle stays.
LEMMA GoodGates ==
    ASSUME NEW m, NEW f \in Regs, NEW o, Good(m, f, o), NEW k \in Nat \ {0}, Room(m, k),
           NEW r \in QRegs, NEW s \in State
    PROVE  LET n == SetQreg(Gates(m, k, s), r, m.next + k - 1)
           IN  /\ Good([n EXCEPT !.qf = TRUE], f, o)
               /\ [n EXCEPT !.qf = TRUE].forked = m.forked
<1> DEFINE h == m.next + k - 1
           n == SetQreg(Gates(m, k, s), r, h)
<1>1. m \in Machine
  BY DEF Good
<1>2. h \in Handles /\ h >= m.next /\ h + 1 = m.next + k
  BY <1>1, MachineFields, SizesAssumption DEF Room, Handles
<1>3. Gates(m, k, s) = [m EXCEPT !.states[h] = s, !.next = h + 1]
  BY <1>1, <1>2 DEF Gates, Machine
<1>4. Good(n, f, o) /\ n.forked = m.forked
  <2> DEFINE p == [m EXCEPT !.states[h] = s, !.next = h + 1]
  <2> HIDE DEF h
  <2>1. /\ Good(SetQreg(p, r, h), f, o)
        /\ SetQreg(p, r, h).forked = m.forked
    BY <1>2, GoodPut
  <2> QED BY <1>3, <2>1
<1> QED BY <1>4, GoodFlags DEF Good, Machine

\* A state that is used up.
LEMMA GoodConsumed ==
    ASSUME NEW m, NEW f \in Regs, NEW o, Good(m, f, o), NEW r \in QRegs
    PROVE  /\ Good(Consumed(m, r), f, o)
           /\ Consumed(m, r).q = [m.q EXCEPT ![r] = None]
           /\ Consumed(m, r).next = m.next /\ Consumed(m, r).forked = m.forked
<1> DEFINE new == [x \in Handles |-> IF x = m.q[r] THEN None ELSE m.states[x]]
<1>1. m \in Machine /\ Owned(m.q, m.mem, f, m.states, m.next, o)
  BY DEF Good
<1>2. m.q[r] \in Handle /\ None \in Handle
  BY <1>1 DEF Machine, Handle
<1>3. Release(m, m.q[r]) = [m EXCEPT !.states = new]
  BY <1>1, <1>2, ReleaseFields
<1>4. Consumed(m, r) = [m EXCEPT !.states = new, !.q = [m.q EXCEPT ![r] = None]]
  BY <1>1, <1>3 DEF Consumed, TakeQreg, Machine
<1>5. new \in Table
  BY <1>1 DEF Machine, Table
<1>6. Consumed(m, r) \in Machine
  <2>1. [m.q EXCEPT ![r] = None] \in Regs
    BY <1>1, <1>2 DEF Machine, Regs
  <2> QED BY <1>1, <1>4, <1>5, <2>1 DEF Machine, Table, Regs
<1>7. Owned([m.q EXCEPT ![r] = None], m.mem, f, new, m.next, o)
  BY <1>1, <1>5, MachineFields, OwnedTake
<1>8. /\ Consumed(m, r).q = [m.q EXCEPT ![r] = None]
      /\ Consumed(m, r).mem = m.mem /\ Consumed(m, r).states = new
      /\ Consumed(m, r).next = m.next /\ Consumed(m, r).forked = m.forked
  BY <1>1, <1>4 DEF Machine
<1> QED BY <1>6, <1>7, <1>8 DEF Good

\* QXCH.
LEMMA GoodExchange ==
    ASSUME NEW m, NEW f \in Regs, NEW o, Good(m, f, o), NEW a \in QRegs, NEW b \in QRegs
    PROVE  LET n == [m EXCEPT !.q[a] = m.q[b], !.q[b] = m.q[a]]
           IN  Good(n, f, o) /\ n.forked = m.forked
<1> DEFINE n == [m EXCEPT !.q[a] = m.q[b], !.q[b] = m.q[a]]
           p == [m.q EXCEPT ![a] = m.q[b], ![b] = m.q[a]]
<1>1. m \in Machine /\ Owned(m.q, m.mem, f, m.states, m.next, o)
  BY DEF Good
<1>2. n = [m EXCEPT !.q = p]
  BY <1>1 DEF Machine
<1>3. p \in Regs
  BY <1>1 DEF Machine, Regs
<1>4. Owned(p, m.mem, f, m.states, m.next, o)
  BY <1>1, MachineFields, OwnedExchange
<1> HIDE DEF p, n
<1>5. /\ n \in Machine /\ n.q = p /\ n.mem = m.mem /\ n.states = m.states
      /\ n.next = m.next /\ n.forked = m.forked
  BY <1>1, <1>2, <1>3 DEF Machine, Regs
<1> QED BY <1>4, <1>5 DEF Good, n

\* A Bell pair is left to be used.
LEMMA PaidType ==
    ASSUME NEW m \in Machine, ~Exhausted(m)
    PROVE  Paid(m) \in 0 .. Budget
BY MachineFields, SizesAssumption DEF Exhausted, Paid

\* QLOAD.
LEMMA GoodLoaded ==
    ASSUME NEW m, NEW f \in Regs, NEW o, Good(m, f, o), ~Exhausted(m),
           NEW r \in QRegs, NEW slot \in Slots, m.mem[slot] # None, NEW s \in State
    PROVE  /\ Good(Loaded(m, r, slot, s), f, o)
           /\ Loaded(m, r, slot, s).forked = m.forked
<1> DEFINE h == m.mem[slot]
           p == [m.q EXCEPT ![r] = h]
           w == [m.mem EXCEPT ![slot] = None]
           st == [x \in Handles |-> IF x = m.q[r] THEN None ELSE m.states[x]]
           new == [x \in Handles |-> IF x = h THEN s
                                     ELSE IF x = m.q[r] THEN None ELSE m.states[x]]
           pd == Paid(m)
           n == Loaded(m, r, slot, s)
<1>1. m \in Machine /\ Owned(m.q, m.mem, f, m.states, m.next, o)
  BY DEF Good
<1>2. m.q[r] \in Handle /\ h \in Handles /\ None \in Handle
  BY <1>1 DEF Machine, Handle
<1>3. Release(m, m.q[r]) = [m EXCEPT !.states = st]
  BY <1>1, <1>2, ReleaseFields
<1>4. new = [st EXCEPT ![h] = s]
  BY <1>2
<1>5. p \in Regs /\ w \in Mems /\ new \in Table /\ pd \in 0 .. Budget
  <2>1. p \in Regs /\ w \in Mems
    BY <1>1, <1>2 DEF Machine, Regs, Mems, Handle
  <2>2. new \in Table
    BY <1>1 DEF Machine, Table
  <2> QED BY <1>1, <2>1, <2>2, PaidType
<1>6. Owned(p, w, f, new, m.next, o)
  <2> DEFINE q == m.q
             mem == m.mem
             states == m.states
             next == m.next
  <2>1. /\ q \in Regs /\ mem \in Mems /\ states \in Table /\ next \in Nat
        /\ Owned(q, mem, f, states, next, o) /\ mem[slot] # None
        /\ new \in Table
        /\ new = [x \in Handles |-> IF x = mem[slot] THEN s
                                     ELSE IF x = q[r] THEN None ELSE states[x]]
    BY <1>1, <1>5, MachineFields
  <2> HIDE DEF q, mem, states, next, new
  <2>2. Owned([q EXCEPT ![r] = mem[slot]], [mem EXCEPT ![slot] = None], f, new, next, o)
    BY <2>1, OwnedLoad
  <2> QED BY <2>2 DEF q, mem, states, next
<1>7. n = [m EXCEPT !.q = p, !.mem = w, !.states = new, !.pairs = pd, !.qf = TRUE]
  <2> HIDE DEF st, new, pd
  <2> QED BY <1>1, <1>3, <1>4 DEF Loaded, SetQreg, Machine, pd
<1> HIDE DEF p, w, new, pd, n
<1>8. /\ n \in Machine /\ n.q = p /\ n.mem = w /\ n.states = new
      /\ n.next = m.next /\ n.forked = m.forked
  BY <1>1, <1>5, <1>7 DEF Machine, Regs, Mems, Table
<1> QED BY <1>6, <1>8 DEF Good, n

\* QSTORE.
LEMMA GoodStored ==
    ASSUME NEW m, NEW f \in Regs, NEW o, Good(m, f, o), ~Exhausted(m),
           NEW r \in QRegs, NEW slot \in Slots, m.q[r] # None, NEW s \in State
    PROVE  /\ Good(Stored(m, r, slot, s), f, o)
           /\ Stored(m, r, slot, s).forked = m.forked
<1> DEFINE h == m.q[r]
           p == [m.q EXCEPT ![r] = None]
           w == [m.mem EXCEPT ![slot] = h]
           st == [x \in Handles |-> IF x = m.mem[slot] THEN None ELSE m.states[x]]
           new == [x \in Handles |-> IF x = h THEN s
                                     ELSE IF x = m.mem[slot] THEN None ELSE m.states[x]]
           pd == Paid(m)
           n == Stored(m, r, slot, s)
<1>1. m \in Machine /\ Owned(m.q, m.mem, f, m.states, m.next, o)
  BY DEF Good
<1>2. m.mem[slot] \in Handle /\ h \in Handles /\ None \in Handle
  BY <1>1 DEF Machine, Handle
<1>3. Release(m, m.mem[slot]) = [m EXCEPT !.states = st]
  BY <1>1, <1>2, ReleaseFields
<1>4. new = [st EXCEPT ![h] = s]
  BY <1>2
<1>5. p \in Regs /\ w \in Mems /\ new \in Table /\ pd \in 0 .. Budget
  <2>1. p \in Regs /\ w \in Mems
    BY <1>1, <1>2 DEF Machine, Regs, Mems, Handle
  <2>2. new \in Table
    BY <1>1 DEF Machine, Table
  <2> QED BY <1>1, <2>1, <2>2, PaidType
<1>6. Owned(p, w, f, new, m.next, o)
  <2> DEFINE q == m.q
             mem == m.mem
             states == m.states
             next == m.next
  <2>1. /\ q \in Regs /\ mem \in Mems /\ states \in Table /\ next \in Nat
        /\ Owned(q, mem, f, states, next, o) /\ q[r] # None
        /\ new \in Table
        /\ new = [x \in Handles |-> IF x = q[r] THEN s
                                     ELSE IF x = mem[slot] THEN None ELSE states[x]]
    BY <1>1, <1>5, MachineFields
  <2> HIDE DEF q, mem, states, next, new
  <2>2. Owned([q EXCEPT ![r] = None], [mem EXCEPT ![slot] = q[r]], f, new, next, o)
    BY <2>1, OwnedStore
  <2> QED BY <2>2 DEF q, mem, states, next
<1>7. n = [m EXCEPT !.q = p, !.mem = w, !.states = new, !.pairs = pd]
  <2> HIDE DEF st, new, pd
  <2> QED BY <1>1, <1>3, <1>4 DEF Stored, Machine, pd
<1> HIDE DEF p, w, new, pd, n
<1>8. /\ n \in Machine /\ n.q = p /\ n.mem = w /\ n.states = new
      /\ n.next = m.next /\ n.forked = m.forked
  BY <1>1, <1>5, <1>7 DEF Machine, Regs, Mems, Table
<1> QED BY <1>6, <1>8 DEF Good, n

\* HFORK and HMERGE.
LEMMA GoodSplit ==
    ASSUME NEW m, NEW o, Good(m, Empty, o)
    PROVE  Good(Split(m), m.q, o) /\ Split(m).forked
<1>1. m \in Machine /\ Owned(m.q, m.mem, Empty, m.states, m.next, o)
  BY DEF Good
<1>2. Empty \in Regs
  BY DEF Empty, Regs, Handle
<1>3. Owned(Empty, m.mem, m.q, m.states, m.next, o)
  BY <1>1, MachineFields, OwnedFork
<1>4. /\ Split(m) \in Machine /\ Split(m).q = Empty /\ Split(m).mem = m.mem
      /\ Split(m).states = m.states /\ Split(m).next = m.next /\ Split(m).forked
  BY <1>1, <1>2 DEF Split, Machine, Regs
<1> QED BY <1>3, <1>4 DEF Good

LEMMA GoodMerged ==
    ASSUME NEW m, NEW f \in Regs, NEW o, Good(m, f, o)
    PROVE  Good([m EXCEPT !.forked = FALSE, !.q = f], Empty,
                o \cup ({m.q[r] : r \in QRegs} \ {None}))
<1> DEFINE n == [m EXCEPT !.forked = FALSE, !.q = f]
           u == o \cup ({m.q[r] : r \in QRegs} \ {None})
<1>1. m \in Machine /\ Owned(m.q, m.mem, f, m.states, m.next, o)
  BY DEF Good
<1>2. Owned(f, m.mem, Empty, m.states, m.next, u)
  BY <1>1, MachineFields, OwnedMerge
<1>3. /\ n \in Machine /\ n.q = f /\ n.mem = m.mem
      /\ n.states = m.states /\ n.next = m.next
  BY <1>1 DEF Machine, Regs
<1> QED BY <1>2, <1>3 DEF Good

-----------------------------------------------------------------------------
(***************************************************************************)
(* The inductive invariant.  Beside the ownership on every machine that is *)
(* still there, the shared file is empty outside a region: otherwise HFORK *)
(* would overwrite handles that nothing else names.                        *)
(***************************************************************************)
FileEmpty == run[0] = "exec" /\ (~vm[0].forked \/ threads = 1) => qfile = Empty

OwnInv ==
    /\ TypeOK
    /\ FileEmpty
    /\ \A t \in Tids : Current(t) => Good(vm[t], qfile, overwritten)

LEMMA ZeroTid == 0 \in Tids
BY SizesAssumption DEF Tids

LEMMA NewMachineType == NewMachine \in Machine
BY SizesAssumption DEF NewMachine, Machine, Empty, Handle

LEMMA InitOwned == Init => OwnInv
<1> SUFFICES ASSUME Init PROVE OwnInv
  OBVIOUS
<1>1. Empty \in Regs
  BY DEF Empty, Regs, Handle
<1>2. TypeOK
  BY <1>1, NewMachineType, SizesAssumption DEF Init, TypeOK, Regs
<1>3. Good(NewMachine, Empty, {})
  <2>1. /\ NewMachine.q = Empty /\ NewMachine.mem = [s \in Slots |-> None]
        /\ NewMachine.states = [h \in Handles |-> None] /\ NewMachine.next = 0
    BY DEF NewMachine
  <2> QED BY <1>1, <2>1, NothingOwned, NewMachineType DEF Good
<1> QED BY <1>2, <1>3 DEF Init, OwnInv, FileEmpty

\* An instruction that retires with a good machine keeps the invariant.
LEMMA RetireOwned ==
    ASSUME OwnInv, NEW t \in Tids, NEW m, Executes(t), Retire(t, m),
           Good(m, qfile, overwritten),
           t = 0 /\ (~m.forked \/ threads = 1) => qfile = Empty
    PROVE  OwnInv'
<1>1. m \in Machine
  BY DEF Good
<1>2. TypeOK'
  BY <1>1 DEF OwnInv, TypeOK, Retire, region
<1>3. FileEmpty'
  BY ZeroTid DEF OwnInv, TypeOK, FileEmpty, Retire, region
<1>4. ASSUME NEW u \in Tids, Current(u)'
      PROVE  Good(vm[u], qfile, overwritten)'
  BY <1>4 DEF OwnInv, TypeOK, Retire, region, Current
<1> QED BY <1>2, <1>3, <1>4 DEF OwnInv

\* So does a thread that leaves.
LEMMA LeaveOwned ==
    ASSUME OwnInv, NEW t \in Tids, NEW m, NEW how \in {"ended", "failed"},
           Leave(t, m, how), t = 0 => Good(m, qfile, overwritten)
    PROVE  OwnInv'
<1>1. t = 0 => m \in Machine
  BY DEF Good
<1>2. TypeOK'
  BY <1>1, NewMachineType DEF OwnInv, TypeOK, Leave, region
<1>3. FileEmpty'
  BY ZeroTid DEF OwnInv, TypeOK, FileEmpty, Leave, region
<1>4. ASSUME NEW u \in Tids, Current(u)'
      PROVE  Good(vm[u], qfile, overwritten)'
  BY <1>4 DEF OwnInv, TypeOK, Leave, region, Current
<1> QED BY <1>2, <1>3, <1>4 DEF OwnInv

\* What an executing thread starts from.
LEMMA ExecutingOwned ==
    ASSUME OwnInv, NEW t \in Tids, Executes(t)
    PROVE  /\ Good(vm[t], qfile, overwritten)
           /\ vm[t] \in Machine
           /\ qfile \in Regs
           /\ t = 0 /\ (~vm[t].forked \/ threads = 1) => qfile = Empty
BY DEF OwnInv, TypeOK, FileEmpty, Executes, Current, Regs

LEMMA FaultOwned ==
    ASSUME OwnInv, NEW t \in Tids, NEW m, Fault(t, m),
           Good(m, qfile, overwritten)
    PROVE  OwnInv'
BY LeaveOwned DEF Fault

LEMMA StopOwned ==
    ASSUME OwnInv, NEW t \in Tids, Stop(t)
    PROVE  OwnInv'
BY LeaveOwned, ExecutingOwned DEF Stop

LEMMA KeepOwned ==
    ASSUME OwnInv, NEW t \in Tids, NEW m, Executes(t), Retire(t, m),
           Good(m, qfile, overwritten), m.forked = vm[t].forked
    PROVE  OwnInv'
BY RetireOwned, ExecutingOwned

\* A new state in a register, made from machine m that is as good as thread t's.
LEMMA FillOwned ==
    ASSUME OwnInv, NEW t \in Tids, NEW m, Executes(t),
           Good(m, qfile, overwritten), m.forked = vm[t].forked, Room(m, 1),
           NEW dst \in QRegs, NEW s \in State,
           Retire(t, [Filled(m, dst, s) EXCEPT !.qf = TRUE])
    PROVE  OwnInv'
<1> DEFINE n == [Filled(m, dst, s) EXCEPT !.qf = TRUE]
<1>1. Good(n, qfile, overwritten) /\ n.forked = m.forked
  BY GoodFilled, ExecutingOwned
<1> HIDE DEF n
<1> QED BY <1>1, KeepOwned DEF n

-----------------------------------------------------------------------------
(***************************************************************************)
(* One lemma for every instruction.                                        *)
(***************************************************************************)
LEMMA QPrepOwned ==
    ASSUME OwnInv, NEW t \in Tids, NEW dst \in QRegs, QPrep(t, dst)
    PROVE  OwnInv'
<1>1. Executes(t) /\ Good(vm[t], qfile, overwritten)
  BY ExecutingOwned DEF QPrep
<1>2. CASE Fault(t, vm[t])
  BY <1>1, <1>2, FaultOwned
<1>3. ASSUME NEW s \in State, Room(vm[t], 1),
             Retire(t, [Filled(vm[t], dst, s) EXCEPT !.qf = TRUE])
      PROVE  OwnInv'
  BY <1>1, <1>3, FillOwned
<1> QED BY <1>2, <1>3 DEF QPrep

LEMMA QKernelOwned ==
    ASSUME OwnInv, NEW t \in Tids, NEW dst \in QRegs, NEW src \in QRegs, QKernel(t, dst, src)
    PROVE  OwnInv'
<1>1. Executes(t) /\ Good(vm[t], qfile, overwritten)
  BY ExecutingOwned DEF QKernel
<1>2. CASE Fault(t, vm[t])
  BY <1>1, <1>2, FaultOwned
<1>3. ASSUME NEW s \in State, Room(vm[t], 1),
             Retire(t, [Filled(vm[t], dst, s) EXCEPT !.qf = TRUE])
      PROVE  OwnInv'
  BY <1>1, <1>3, FillOwned
<1> QED BY <1>2, <1>3 DEF QKernel, Gate, Of

LEMMA QPtraceOwned ==
    ASSUME OwnInv, NEW t \in Tids, NEW dst \in QRegs, NEW src \in QRegs, QPtrace(t, dst, src)
    PROVE  OwnInv'
<1>1. Executes(t) /\ Good(vm[t], qfile, overwritten)
  BY ExecutingOwned DEF QPtrace
<1>2. CASE Fault(t, vm[t])
  BY <1>1, <1>2, FaultOwned
<1>3. ASSUME NEW s \in State, Room(vm[t], 1),
             Retire(t, [Filled(vm[t], dst, s) EXCEPT !.qf = TRUE])
      PROVE  OwnInv'
  BY <1>1, <1>3, FillOwned
<1> QED BY <1>2, <1>3 DEF QPtrace

\* A handle that is named has a state.
LEMMA NamedState ==
    ASSUME NEW m, NEW f, NEW o, Good(m, f, o)
    PROVE  /\ \A r \in QRegs : m.q[r] # None => StateIn(m, r) \in State
           /\ \A s \in Slots : m.mem[s] # None => m.states[m.mem[s]] \in State
BY DEF Good, Owned, Live, Machine, Handle, StateIn

LEMMA QubitsType == \A s \in State : s.qubits \in Nat \ {0}
BY QubitLimitAssumption DEF State

LEMMA QMaskedOwned ==
    ASSUME OwnInv, NEW t \in Tids, NEW dst \in QRegs, NEW src \in QRegs, QMasked(t, dst, src)
    PROVE  OwnInv'
<1> DEFINE m == vm[t]
<1>1. /\ Executes(t) /\ Good(m, qfile, overwritten)
      /\ qfile \in Regs /\ m \in Machine
  BY ExecutingOwned DEF QMasked
<1>2. CASE m.q[src] = None /\ Fault(t, m)
  BY <1>1, <1>2, FaultOwned
<1>3. CASE /\ m.q[src] # None
           /\ dst = src \/ Room(m, 1)
           /\ Retire(t, [Unmasked(m, dst, src) EXCEPT !.qf = TRUE])
  <2>1. CASE dst = src
    <3> DEFINE n == [m EXCEPT !.qf = TRUE]
    <3>1. Good(n, qfile, overwritten) /\ n.forked = m.forked
      BY <1>1, GoodFlags DEF Machine
    <3>2. Retire(t, n)
      BY <1>3, <2>1 DEF Unmasked
    <3> HIDE DEF n
    <3> QED BY <1>1, <3>1, <3>2, KeepOwned
  <2>2. CASE dst # src
    <3>1. StateIn(m, src) \in State
      BY <1>1, <1>3, NamedState
    <3> QED BY <1>1, <1>3, <2>2, <3>1, FillOwned DEF Unmasked
  <2> QED BY <2>1, <2>2
<1>4. ASSUME m.q[src] # None, NEW k \in 1 .. StateIn(m, src).qubits, NEW s \in State,
             Room(m, k),
             Retire(t, [SetQreg(Gates(m, k, s), dst, m.next + k - 1) EXCEPT !.qf = TRUE])
      PROVE  OwnInv'
  <2> DEFINE n == [SetQreg(Gates(m, k, s), dst, m.next + k - 1) EXCEPT !.qf = TRUE]
  <2>1. k \in Nat \ {0}
    BY <1>1, <1>4, NamedState, QubitsType
  <2>2. Good(n, qfile, overwritten) /\ n.forked = m.forked
    BY <1>1, <1>4, <2>1, GoodGates
  <2> HIDE DEF n
  <2> QED BY <1>1, <1>4, <2>2, KeepOwned DEF n
<1> QED BY <1>2, <1>3, <1>4 DEF QMasked, Of

LEMMA RebuildOwned ==
    ASSUME OwnInv, NEW t \in Tids, NEW dst \in QRegs, NEW src \in QRegs, Rebuild(t, dst, src)
    PROVE  OwnInv'
<1> DEFINE m == vm[t]
           used == Consumed(m, src)
<1>1. /\ Executes(t) /\ Good(m, qfile, overwritten)
      /\ qfile \in Regs /\ m \in Machine
  BY ExecutingOwned DEF Rebuild
<1>2. CASE Fault(t, m)
  BY <1>1, <1>2, FaultOwned
<1>3. ASSUME NEW s \in State, Room(m, 1),
             Retire(t, [Filled(used, dst, s) EXCEPT !.qf = TRUE])
      PROVE  OwnInv'
  <2>1. /\ Good(used, qfile, overwritten)
        /\ used.next = m.next /\ used.forked = m.forked
    BY <1>1, GoodConsumed
  <2>2. Room(used, 1)
    BY <1>3, <2>1 DEF Room
  <2> HIDE DEF used
  <2> QED BY <1>1, <1>3, <2>1, <2>2, FillOwned
<1> QED BY <1>2, <1>3 DEF Rebuild, Of

LEMMA QObserveOwned ==
    ASSUME OwnInv, NEW t \in Tids, NEW src \in QRegs, QObserve(t, src)
    PROVE  OwnInv'
<1> DEFINE m == vm[t]
           used == Consumed(m, src)
           n == [used EXCEPT !.qf = FALSE]
<1>1. /\ Executes(t) /\ Good(m, qfile, overwritten)
      /\ qfile \in Regs /\ m \in Machine
  BY ExecutingOwned DEF QObserve
<1>2. CASE Fault(t, m)
  BY <1>1, <1>2, FaultOwned
<1>3. Good(used, qfile, overwritten) /\ used.forked = m.forked
  BY <1>1, GoodConsumed
<1>4. Good(n, qfile, overwritten) /\ n.forked = m.forked
  <2> HIDE DEF used
  <2> QED BY <1>3, GoodFlags DEF Good, Machine
<1>5. CASE Fault(t, used)
  <2> HIDE DEF used
  <2> QED BY <1>1, <1>3, <1>5, FaultOwned
<1>6. CASE Retire(t, n)
  <2> HIDE DEF n
  <2> QED BY <1>1, <1>4, <1>6, KeepOwned
<1> QED BY <1>2, <1>5, <1>6 DEF QObserve

LEMMA QTensorOwned ==
    ASSUME OwnInv, NEW t \in Tids, NEW dst \in QRegs, NEW a \in QRegs, NEW b \in QRegs,
           QTensor(t, dst, a, b)
    PROVE  OwnInv'
<1> DEFINE m == vm[t]
           one == Consumed(m, a)
           both == Consumed(one, b)
<1>1. /\ Executes(t) /\ Good(m, qfile, overwritten)
      /\ qfile \in Regs /\ m \in Machine
  BY ExecutingOwned DEF QTensor
<1>2. CASE Fault(t, m)
  BY <1>1, <1>2, FaultOwned
<1>3. /\ Good(one, qfile, overwritten)
      /\ one.next = m.next /\ one.forked = m.forked
  BY <1>1, GoodConsumed
<1>4. /\ Good(both, qfile, overwritten)
      /\ both.next = m.next /\ both.forked = m.forked
  <2> HIDE DEF one
  <2> QED BY <1>1, <1>3, GoodConsumed
<1> HIDE DEF both
<1>5. CASE Fault(t, both)
  BY <1>1, <1>4, <1>5, FaultOwned
<1>6. ASSUME NEW s \in State, Room(m, 1),
             Retire(t, [Filled(both, dst, s) EXCEPT !.qf = TRUE])
      PROVE  OwnInv'
  <2>1. Room(both, 1)
    BY <1>4, <1>6 DEF Room
  <2> QED BY <1>1, <1>4, <1>6, <2>1, FillOwned
<1> QED BY <1>2, <1>5, <1>6 DEF QTensor, Refused, Of, both

LEMMA QXchOwned ==
    ASSUME OwnInv, NEW t \in Tids, NEW a \in QRegs, NEW b \in QRegs, QXch(t, a, b)
    PROVE  OwnInv'
<1> DEFINE m == vm[t]
           n == [m EXCEPT !.q[a] = m.q[b], !.q[b] = m.q[a]]
<1>1. /\ Executes(t) /\ Good(m, qfile, overwritten) /\ qfile \in Regs
  BY ExecutingOwned DEF QXch
<1>2. CASE Fault(t, m)
  BY <1>1, <1>2, FaultOwned
<1>3. Good(n, qfile, overwritten) /\ n.forked = m.forked
  BY <1>1, GoodExchange
<1>4. CASE Retire(t, n)
  <2> HIDE DEF n
  <2> QED BY <1>1, <1>3, <1>4, KeepOwned
<1> QED BY <1>2, <1>4 DEF QXch

LEMMA TeleportedType == \A s \in State : Teleported(s) \subseteq State
BY DEF Teleported, Of

LEMMA QLoadOwned ==
    ASSUME OwnInv, NEW t \in Tids, NEW dst \in QRegs, NEW slot \in Slots, QLoad(t, dst, slot)
    PROVE  OwnInv'
<1> DEFINE m == vm[t]
<1>1. /\ Executes(t) /\ Good(m, qfile, overwritten) /\ qfile \in Regs
  BY ExecutingOwned DEF QLoad
<1>2. CASE Fault(t, m)
  BY <1>1, <1>2, FaultOwned
<1>3. ASSUME m.mem[slot] # None, ~Exhausted(m), NEW s \in Teleported(m.states[m.mem[slot]]),
             Retire(t, Loaded(m, dst, slot, s))
      PROVE  OwnInv'
  <2>1. s \in State
    BY <1>1, <1>3, NamedState, TeleportedType
  <2>2. Good(Loaded(m, dst, slot, s), qfile, overwritten)
        /\ Loaded(m, dst, slot, s).forked = m.forked
    BY <1>1, <1>3, <2>1, GoodLoaded
  <2> QED BY <1>1, <1>3, <2>2, KeepOwned
<1> QED BY <1>2, <1>3 DEF QLoad

LEMMA QStoreOwned ==
    ASSUME OwnInv, NEW t \in Tids, NEW src \in QRegs, NEW slot \in Slots, QStore(t, src, slot)
    PROVE  OwnInv'
<1> DEFINE m == vm[t]
<1>1. /\ Executes(t) /\ Good(m, qfile, overwritten) /\ qfile \in Regs
  BY ExecutingOwned DEF QStore
<1>2. CASE Fault(t, m)
  BY <1>1, <1>2, FaultOwned
<1>3. ASSUME m.q[src] # None, ~Exhausted(m), NEW s \in Teleported(StateIn(m, src)),
             Retire(t, Stored(m, src, slot, s))
      PROVE  OwnInv'
  <2>1. s \in State
    BY <1>1, <1>3, NamedState, TeleportedType
  <2>2. Good(Stored(m, src, slot, s), qfile, overwritten)
        /\ Stored(m, src, slot, s).forked = m.forked
    BY <1>1, <1>3, <2>1, GoodStored
  <2> QED BY <1>1, <1>3, <2>2, KeepOwned
<1> QED BY <1>2, <1>3 DEF QStore

\* A machine with another forked flag.
LEMMA ForkedFlag ==
    ASSUME NEW m, NEW f, NEW o, Good(m, f, o), NEW b \in BOOLEAN
    PROVE  /\ Good([m EXCEPT !.forked = b], f, o)
           /\ [m EXCEPT !.forked = b].forked = b
BY GoodFlags DEF Good, Machine

LEMMA HForkOwned ==
    ASSUME OwnInv, NEW t \in Tids, HFork(t)
    PROVE  OwnInv'
<1> DEFINE m == vm[t]
<1>1. /\ Executes(t) /\ Good(m, qfile, overwritten) /\ qfile \in Regs /\ m \in Machine
      /\ t = 0 /\ (~m.forked \/ threads = 1) => qfile = Empty
  BY ExecutingOwned DEF HFork
<1>2. CASE Fault(t, m)
  BY <1>1, <1>2, FaultOwned
<1>3. CASE ~m.forked /\ threads = 1 /\ Retire(t, [m EXCEPT !.forked = TRUE])
  <2> DEFINE n == [m EXCEPT !.forked = TRUE]
  <2>1. Good(n, qfile, overwritten)
    BY <1>1, ForkedFlag
  <2> HIDE DEF n
  <2> QED BY <1>1, <1>3, <2>1, RetireOwned DEF n
<1>4. CASE /\ t = 0 /\ threads > 1 /\ ~m.forked /\ ~m.qf
           /\ vm' = [w \in Tids |-> IF w < threads THEN Split(m) ELSE vm[w]]
           /\ run' = [w \in Tids |-> IF w < threads THEN "exec" ELSE "idle"]
           /\ qfile' = m.q
           /\ UNCHANGED <<threads, overwritten>>
  <2> DEFINE n == Split(m)
  <2>1. Good(m, Empty, overwritten)
    BY <1>1, <1>4
  <2>2. Good(n, m.q, overwritten) /\ n.forked
    BY <2>1, GoodSplit
  <2> HIDE DEF n
  <2>3. threads \in 1 .. N /\ 0 < threads /\ 0 \in Tids
    BY <1>4, SizesAssumption, ZeroTid DEF OwnInv, TypeOK
  <2>4. TypeOK'
    <3>1. vm' \in [Tids -> Machine] /\ run' \in [Tids -> {"idle", "exec", "ended", "failed"}]
      BY <1>4, <2>2 DEF OwnInv, TypeOK, Good, n
    <3>2. qfile' \in [QRegs -> Handle]
      BY <1>1, <1>4 DEF Machine
    <3> QED BY <1>4, <3>1, <3>2 DEF OwnInv, TypeOK
  <2>5. FileEmpty'
    BY <1>4, <2>2, <2>3 DEF FileEmpty, n
  <2>6. ASSUME NEW u \in Tids, Current(u)'
        PROVE  Good(vm[u], qfile, overwritten)'
    <3>1. u < threads
      BY <1>4, <2>3, <2>6 DEF Current
    <3> QED BY <1>4, <2>2, <3>1 DEF n
  <2> QED BY <2>4, <2>5, <2>6 DEF OwnInv
<1> QED BY <1>2, <1>3, <1>4 DEF HFork

LEMMA HMergeOwned ==
    ASSUME OwnInv, NEW t \in Tids, HMerge(t)
    PROVE  OwnInv'
<1> DEFINE m == vm[t]
           merged == [m EXCEPT !.forked = FALSE]
<1>1. /\ Executes(t) /\ Good(m, qfile, overwritten) /\ qfile \in Regs /\ m \in Machine
      /\ t = 0 /\ (~m.forked \/ threads = 1) => qfile = Empty
  BY ExecutingOwned DEF HMerge
<1>2. CASE Fault(t, m)
  BY <1>1, <1>2, FaultOwned
<1>3. Good(merged, qfile, overwritten)
  BY <1>1, ForkedFlag
<1>4. CASE Fault(t, merged)
  <2> HIDE DEF merged
  <2> QED BY <1>3, <1>4, FaultOwned
<1>5. CASE threads = 1 /\ Retire(t, merged)
  <2> HIDE DEF merged
  <2> QED BY <1>1, <1>3, <1>5, RetireOwned
<1>6. CASE Stop(t)
  BY <1>6, StopOwned
<1>7. CASE /\ t = 0 /\ Joined
           /\ vm' = [vm EXCEPT ![0] = [merged EXCEPT !.q = qfile]]
           /\ qfile' = Empty
           /\ overwritten' = overwritten \cup ({m.q[r] : r \in QRegs} \ {None})
           /\ UNCHANGED <<threads, run>>
  <2> DEFINE n == [m EXCEPT !.forked = FALSE, !.q = qfile]
  <2>1. Good(n, Empty, overwritten')
    BY <1>1, <1>7, GoodMerged
  <2>2. vm' = [vm EXCEPT ![0] = n]
    BY <1>1, <1>7 DEF Machine
  <2> HIDE DEF n
  <2>3. TypeOK'
    <3>1. vm' \in [Tids -> Machine]
      BY <2>1, <2>2 DEF OwnInv, TypeOK, Good
    <3>2. qfile' \in [QRegs -> Handle]
      BY <1>7 DEF Empty, Handle
    <3>3. overwritten' \subseteq Handles
      BY <1>1, <1>7 DEF OwnInv, TypeOK, Machine, Handle
    <3> QED BY <1>7, <3>1, <3>2, <3>3 DEF OwnInv, TypeOK
  <2>4. FileEmpty'
    BY <1>7 DEF FileEmpty
  <2>5. ASSUME NEW u \in Tids, Current(u)'
        PROVE  Good(vm[u], qfile, overwritten)'
    <3>1. u = 0
      BY <1>7, <2>5 DEF Current, Joined
    <3>2. vm'[0] = n
      BY <2>2, ZeroTid DEF OwnInv, TypeOK
    <3> QED BY <1>7, <2>1, <3>1, <3>2
  <2> QED BY <2>3, <2>4, <2>5 DEF OwnInv
<1> QED BY <1>2, <1>4, <1>5, <1>6, <1>7 DEF HMerge

LEMMA StutterOwned == OwnInv /\ UNCHANGED vars => OwnInv'
BY DEF OwnInv, TypeOK, FileEmpty, Current, vars, region

LEMMA NextOwned == OwnInv /\ [Next]_vars => OwnInv'
<1> SUFFICES ASSUME OwnInv, Next PROVE OwnInv'
  BY StutterOwned
<1>1. PICK t \in Tids : Instruction(t) \/ Stop(t)
  BY DEF Next
<1>2. ASSUME NEW a \in QRegs,
             QPrep(t, a) \/ QMeas(t, a) \/ QPreps(t, a) \/ QObserve(t, a)
      PROVE  OwnInv'
  BY <1>2, QPrepOwned, RebuildOwned, QObserveOwned DEF QMeas, QPreps
<1>3. ASSUME NEW a \in QRegs, NEW b \in QRegs,
             \/ QKernel(t, a, b) \/ QPtrace(t, a, b) \/ QMasked(t, a, b)
             \/ QReset(t, a, b) \/ QXch(t, a, b)
      PROVE  OwnInv'
  BY <1>3, QKernelOwned, QPtraceOwned, QMaskedOwned, RebuildOwned, QXchOwned DEF QReset
<1>4. ASSUME NEW dst \in QRegs, NEW a \in QRegs, NEW b \in QRegs, QTensor(t, dst, a, b)
      PROVE  OwnInv'
  BY <1>4, QTensorOwned
<1>5. ASSUME NEW r \in QRegs, NEW s \in Slots, QLoad(t, r, s) \/ QStore(t, r, s)
      PROVE  OwnInv'
  BY <1>5, QLoadOwned, QStoreOwned
<1>6. CASE HFork(t) \/ HMerge(t)
  BY <1>6, HForkOwned, HMergeOwned
<1>7. CASE Stop(t)
  BY <1>7, StopOwned
<1> QED BY <1>1, <1>2, <1>3, <1>4, <1>5, <1>6, <1>7 DEF Instruction

-----------------------------------------------------------------------------
(***************************************************************************)
(* The theorems.                                                           *)
(***************************************************************************)
LEMMA OwnInvHolds == Spec => []OwnInv
BY InitOwned, NextOwned, PTL DEF Spec

\* Every machine, the shared file and the run states keep their types: no handle is
\* given out twice and the Bell budget never goes below zero.
THEOREM RegistersTypeCorrect == Spec => []TypeOK
<1>1. OwnInv => TypeOK
  BY DEF OwnInv
<1> QED BY <1>1, OwnInvHolds, PTL

\* No instruction, error path or region leaves a handle whose state is gone.
THEOREM NoHandleDangles == Spec => []HandlesLive
<1>1. OwnInv => HandlesLive
  BY DEF OwnInv, Good, Owned, Live, HandlesLive, Reachable, InFile
<1> QED BY <1>1, OwnInvHolds, PTL

\* No state has two owners.
THEOREM OwnersAreUnique == Spec => []SingleOwner
<1>1. OwnInv => SingleOwner
  BY DEF OwnInv, Good, Owned, Single, SingleOwner
<1> QED BY <1>1, OwnInvHolds, PTL

\* No state is left behind in the table, but for what HMERGE overwrites.
THEOREM NoStateLeaks == Spec => []NothingLeaks
<1>1. OwnInv => NothingLeaks
  BY NoneApart DEF OwnInv, Good, Owned, Tight, NothingLeaks, Reachable, InFile
<1> QED BY <1>1, OwnInvHolds, PTL

-----------------------------------------------------------------------------
(***************************************************************************)
(* QuantumRegisters implements QuantumCells.  The ownership above is what  *)
(* makes it true: an instruction writes and releases states in the back    *)
(* end's table, and it changes no other cell because no other cell names   *)
(* the same handle.                                                        *)
(***************************************************************************)
-----------------------------------------------------------------------------
(***************************************************************************)
(* What the cells of one machine hold, with f the shared file.             *)
(***************************************************************************)
QView(m) == [r \in QRegs |-> CellOf(m, m.q[r])]
MemView(m) == [s \in Slots |-> CellOf(m, m.mem[s])]
FileView(m, f) == [r \in QRegs |-> CellOf(m, f[r])]

\* Machine n has what m has, but for register r, which has s.
Replaced(n, m, f, r, s) ==
    /\ QView(n) = [QView(m) EXCEPT ![r] = s]
    /\ MemView(n) = MemView(m)
    /\ FileView(n, f) = FileView(m, f)
    /\ n.pairs = m.pairs

\* Registers a and b have exchanged what they have.
Exchanged(n, m, f, a, b) ==
    /\ QView(n) = [QView(m) EXCEPT ![a] = QView(m)[b], ![b] = QView(m)[a]]
    /\ MemView(n) = MemView(m)
    /\ FileView(n, f) = FileView(m, f)
    /\ n.pairs = m.pairs

\* Register r and a slot have x and y, and a Bell pair is gone.
Moved(n, m, f, r, x, slot, y) ==
    /\ QView(n) = [QView(m) EXCEPT ![r] = x]
    /\ MemView(n) = [MemView(m) EXCEPT ![slot] = y]
    /\ FileView(n, f) = FileView(m, f)
    /\ n.pairs = Paid(m)

\* The flags show nothing.
LEMMA FlagShowsNothing ==
    ASSUME NEW m \in Machine, NEW f, NEW a \in BOOLEAN
    PROVE  \A n \in {[m EXCEPT !.qf = a], [m EXCEPT !.forked = a]} :
              /\ n.q = m.q /\ n.mem = m.mem /\ n.states = m.states
              /\ n.next = m.next /\ n.pairs = m.pairs
              /\ QView(n) = QView(m) /\ MemView(n) = MemView(m)
              /\ FileView(n, f) = FileView(m, f)
<1> SUFFICES ASSUME NEW n \in {[m EXCEPT !.qf = a], [m EXCEPT !.forked = a]}
             PROVE  /\ n.q = m.q /\ n.mem = m.mem /\ n.states = m.states
                    /\ n.next = m.next /\ n.pairs = m.pairs
                    /\ QView(n) = QView(m) /\ MemView(n) = MemView(m)
                    /\ FileView(n, f) = FileView(m, f)
  OBVIOUS
<1>1. /\ n.q = m.q /\ n.mem = m.mem /\ n.states = m.states
      /\ n.next = m.next /\ n.pairs = m.pairs
  BY DEF Machine
<1> QED BY <1>1 DEF QView, MemView, FileView, CellOf

\* One handle of register r gives way to a new one.
LEMMA NewHandleShows ==
    ASSUME NEW m, NEW n, NEW f \in Regs, NEW o, Good(m, f, o),
           NEW h \in Handles, h >= m.next, NEW r \in QRegs, NEW s \in State,
           n.q = [m.q EXCEPT ![r] = h], n.mem = m.mem, n.pairs = m.pairs,
           \A x \in Handles : n.states[x] = IF x = m.q[r] THEN None
                                            ELSE IF x = h THEN s ELSE m.states[x]
    PROVE  Replaced(n, m, f, r, s)
<1> DEFINE q == m.q
           mem == m.mem
           states == m.states
<1>1. /\ q \in Regs /\ mem \in Mems /\ states \in Table
      /\ Owned(q, mem, f, states, m.next, o)
  BY MachineFields DEF Good
<1>2. h # None /\ states[h] = None /\ h \in Nat
  BY <1>1, NoneApart, SizesAssumption DEF Owned, Fresh, Handles
<1> HIDE DEF q, mem, states
<1>3. /\ \A x \in QRegs : q[x] # h /\ f[x] # h
      /\ \A x \in Slots : mem[x] # h
  BY <1>1, <1>2 DEF Owned, Live
<1>4. \A x \in Handles : n.states[x] = IF x = q[r] THEN None
                                       ELSE IF x = h THEN s ELSE states[x]
  BY DEF q, states
<1>5. \A x \in QRegs : CellOf(n, n.q[x]) = IF x = r THEN s ELSE CellOf(m, m.q[x])
  <2> SUFFICES ASSUME NEW x \in QRegs
               PROVE  CellOf(n, n.q[x]) = IF x = r THEN s ELSE CellOf(m, m.q[x])
    OBVIOUS
  <2>1. n.q[x] = IF x = r THEN h ELSE q[x]
    BY <1>1 DEF Regs, q
  <2>2. CASE x = r
    BY <1>2, <1>3, <1>4, <2>1, <2>2 DEF CellOf
  <2>3. CASE x # r
    <3>1. q[x] # None => q[x] # q[r] /\ q[x] \in Handles
      BY <1>1, <2>3 DEF Owned, Single, Regs, Handle
    <3>2. q[x] # None => n.states[q[x]] = states[q[x]]
      BY <1>3, <1>4, <3>1
    <3> QED BY <2>1, <2>3, <3>2 DEF CellOf, q, states
  <2> QED BY <2>2, <2>3
<1>6. \A x \in Slots : CellOf(n, n.mem[x]) = CellOf(m, m.mem[x])
  <2> SUFFICES ASSUME NEW x \in Slots, mem[x] # None
               PROVE  n.states[mem[x]] = states[mem[x]]
    BY DEF CellOf, mem, states
  <2>1. mem[x] # q[r] /\ mem[x] \in Handles
    BY <1>1 DEF Owned, Single, Mems, Handle
  <2> QED BY <1>3, <1>4, <2>1
<1>7. \A x \in QRegs : CellOf(n, f[x]) = CellOf(m, f[x])
  <2> SUFFICES ASSUME NEW x \in QRegs, f[x] # None
               PROVE  n.states[f[x]] = states[f[x]]
    BY DEF CellOf, states
  <2>1. f[x] # q[r] /\ f[x] \in Handles
    BY <1>1 DEF Owned, Single, Regs, Handle
  <2> QED BY <1>3, <1>4, <2>1
<1> QED BY <1>5, <1>6, <1>7 DEF Replaced, QView, MemView, FileView

\* What set_qreg leaves in the fields of a machine.
LEMMA SetQregFields ==
    ASSUME NEW m \in Machine, NEW r \in QRegs, NEW h \in Handle,
           NEW n, n = SetQreg(m, r, h)
    PROVE  /\ n \in Machine
           /\ n.q = [m.q EXCEPT ![r] = h]
           /\ n.mem = m.mem /\ n.next = m.next /\ n.pairs = m.pairs
           /\ \A x \in Handles :
                 n.states[x] = IF x = m.q[r] THEN None ELSE m.states[x]
<1> DEFINE new == [x \in Handles |-> IF x = m.q[r] THEN None ELSE m.states[x]]
           q == [m.q EXCEPT ![r] = h]
<1>1. Release(m, m.q[r]) = [m EXCEPT !.states = new]
  <2>1. m.q[r] \in Handle
    BY DEF Machine
  <2> QED BY <2>1, ReleaseFields
<1>2. new \in Table /\ q \in Regs
  BY DEF Machine, Table, Regs
<1> HIDE DEF new
<1>3. n = [m EXCEPT !.states = new, !.q = q]
  BY <1>1 DEF SetQreg, Machine
<1> HIDE DEF q
<1>4. /\ n \in Machine /\ n.q = q /\ n.states = new
      /\ n.mem = m.mem /\ n.next = m.next /\ n.pairs = m.pairs
  BY <1>2, <1>3 DEF Machine, Table, Regs
<1> QED BY <1>4 DEF new, q

\* Machine p is m with state s for handle h.
Given(p, m, h, s) ==
    /\ p.q = m.q /\ p.mem = m.mem /\ p.pairs = m.pairs
    /\ \A x \in Handles : p.states[x] = IF x = h THEN s ELSE m.states[x]

\* A handle h that was not given out yet, with state s, in register r.
LEMMA PutShows ==
    ASSUME NEW m, NEW f \in Regs, NEW o, Good(m, f, o),
           NEW h \in Handles, h >= m.next, NEW r \in QRegs, NEW s \in State,
           NEW p \in Machine
    PROVE  Given(p, m, h, s) => /\ Replaced(SetQreg(p, r, h), m, f, r, s)
                                /\ SetQreg(p, r, h) \in Machine
<1> DEFINE n == SetQreg(p, r, h)
<1>0. h \in Handle /\ n = SetQreg(p, r, h)
  BY DEF Handle
<1> HIDE DEF n
<1>1. /\ n \in Machine
      /\ n.q = [p.q EXCEPT ![r] = h] /\ n.mem = p.mem /\ n.pairs = p.pairs
      /\ \A x \in Handles : n.states[x] = IF x = p.q[r] THEN None ELSE p.states[x]
  BY <1>0, SetQregFields
<1> SUFFICES ASSUME Given(p, m, h, s)
             PROVE  Replaced(n, m, f, r, s) /\ n \in Machine
  BY <1>0
<1>2. \A x \in Handles : n.states[x] = IF x = m.q[r] THEN None
                                       ELSE IF x = h THEN s ELSE m.states[x]
  BY <1>1 DEF Given
<1>3. n.q = [m.q EXCEPT ![r] = h] /\ n.mem = m.mem /\ n.pairs = m.pairs
  BY <1>1 DEF Given
<1>4. Replaced(n, m, f, r, s)
  BY <1>2, <1>3, NewHandleShows
<1> QED BY <1>1, <1>4

\* QF is invisible.
LEMMA QfShows ==
    ASSUME NEW n, NEW m, NEW f, NEW r, NEW s, Replaced(n, m, f, r, s),
           NEW b \in BOOLEAN, n \in Machine
    PROVE  Replaced([n EXCEPT !.qf = b], m, f, r, s)
BY FlagShowsNothing DEF Replaced

\* A new state in register r.
LEMMA FilledShows ==
    ASSUME NEW m, NEW f \in Regs, NEW o, Good(m, f, o), Room(m, 1),
           NEW r \in QRegs, NEW s \in State
    PROVE  Replaced([Filled(m, r, s) EXCEPT !.qf = TRUE], m, f, r, s)
<1> DEFINE h == m.next
           p == Alloc(m, s)
<1>1. m \in Machine /\ h \in Handles /\ h >= m.next /\ h + 1 \in 0 .. MaxHandles
  BY MachineFields, SizesAssumption DEF Good, Room, Handles
<1>2. p \in Machine /\ Given(p, m, h, s)
  BY <1>1 DEF Given, Alloc, Machine
<1> HIDE DEF p, h
<1>3. Replaced(SetQreg(p, r, h), m, f, r, s) /\ SetQreg(p, r, h) \in Machine
  BY <1>1, <1>2, PutShows
<1>4. Filled(m, r, s) = SetQreg(p, r, h)
  BY DEF Filled, p, h
<1> QED BY <1>3, <1>4, QfShows

\* A row of gates leaves the state of the last one.
LEMMA GatesShow ==
    ASSUME NEW m, NEW f \in Regs, NEW o, Good(m, f, o), NEW k \in Nat \ {0}, Room(m, k),
           NEW r \in QRegs, NEW s \in State
    PROVE  Replaced([SetQreg(Gates(m, k, s), r, m.next + k - 1) EXCEPT !.qf = TRUE], m, f, r, s)
<1> DEFINE h == m.next + k - 1
           p == Gates(m, k, s)
<1>1. m \in Machine /\ h \in Handles /\ h >= m.next /\ m.next + k \in 0 .. MaxHandles
  BY MachineFields, SizesAssumption DEF Good, Room, Handles
<1>2. p \in Machine /\ Given(p, m, h, s)
  BY <1>1 DEF Given, Gates, Machine
<1> HIDE DEF p, h
<1>3. Replaced(SetQreg(p, r, h), m, f, r, s) /\ SetQreg(p, r, h) \in Machine
  BY <1>1, <1>2, PutShows
<1> QED BY <1>3, QfShows DEF p, h

\* The state of register r is used up.
LEMMA ConsumedShows ==
    ASSUME NEW m, NEW f \in Regs, NEW o, Good(m, f, o), NEW r \in QRegs
    PROVE  Replaced(Consumed(m, r), m, f, r, None)
<1> DEFINE q == m.q
           mem == m.mem
           states == m.states
           new == [x \in Handles |-> IF x = q[r] THEN None ELSE states[x]]
           n == Consumed(m, r)
<1>1. /\ m \in Machine /\ q \in Regs /\ mem \in Mems /\ states \in Table
      /\ Owned(q, mem, f, states, m.next, o)
  BY MachineFields DEF Good
<1>2. Release(m, m.q[r]) = [m EXCEPT !.states = new]
  <2>1. m.q[r] \in Handle
    BY <1>1 DEF Regs
  <2> QED BY <1>1, <2>1, ReleaseFields
<1> HIDE DEF new
<1>3. n.q = [q EXCEPT ![r] = None] /\ n.mem = mem /\ n.pairs = m.pairs /\ n.states = new
  BY <1>1, <1>2 DEF Consumed, TakeQreg, Machine
<1> HIDE DEF q, mem, states, n
<1>4. \A x \in Handles : new[x] = IF x = q[r] THEN None ELSE states[x]
  BY DEF new
<1>5. \A x \in QRegs : CellOf(n, n.q[x]) = IF x = r THEN None ELSE CellOf(m, q[x])
  <2> SUFFICES ASSUME NEW x \in QRegs, x # r, q[x] # None
               PROVE  new[q[x]] = states[q[x]]
    BY <1>1, <1>3 DEF CellOf, Regs, states
  <2>1. q[x] # q[r] /\ q[x] \in Handles
    BY <1>1 DEF Owned, Single, Regs, Handle
  <2> QED BY <1>4, <2>1
<1>6. \A x \in Slots : CellOf(n, mem[x]) = CellOf(m, mem[x])
  <2> SUFFICES ASSUME NEW x \in Slots, mem[x] # None
               PROVE  new[mem[x]] = states[mem[x]]
    BY <1>3 DEF CellOf, states
  <2>1. mem[x] # q[r] /\ mem[x] \in Handles
    BY <1>1 DEF Owned, Single, Mems, Handle
  <2> QED BY <1>4, <2>1
<1>7. \A x \in QRegs : CellOf(n, f[x]) = CellOf(m, f[x])
  <2> SUFFICES ASSUME NEW x \in QRegs, f[x] # None
               PROVE  new[f[x]] = states[f[x]]
    BY <1>3 DEF CellOf, states
  <2>1. f[x] # q[r] /\ f[x] \in Handles
    BY <1>1 DEF Owned, Single, Regs, Handle
  <2> QED BY <1>4, <2>1
<1> QED BY <1>3, <1>5, <1>6, <1>7 DEF Replaced, QView, MemView, FileView, q, mem, n

\* QXCH.
LEMMA ExchangeShows ==
    ASSUME NEW m \in Machine, NEW f, NEW a \in QRegs, NEW b \in QRegs
    PROVE  Exchanged([m EXCEPT !.q[a] = m.q[b], !.q[b] = m.q[a]], m, f, a, b)
<1> DEFINE n == [m EXCEPT !.q[a] = m.q[b], !.q[b] = m.q[a]]
           p == [m.q EXCEPT ![a] = m.q[b], ![b] = m.q[a]]
<1>1. n = [m EXCEPT !.q = p]
  BY DEF Machine
<1>2. \A x \in QRegs : p[x] = IF x = b THEN m.q[a] ELSE IF x = a THEN m.q[b] ELSE m.q[x]
  BY DEF Machine
<1> HIDE DEF p, n
<1>3. n.q = p /\ n.mem = m.mem /\ n.states = m.states /\ n.pairs = m.pairs
  BY <1>1 DEF Machine
<1>4. \A h : CellOf(n, h) = CellOf(m, h)
  BY <1>3 DEF CellOf
<1>5. QView(n) = [QView(m) EXCEPT ![a] = QView(m)[b], ![b] = QView(m)[a]]
  <2>1. /\ QView(m)[a] = CellOf(m, m.q[a]) /\ QView(m)[b] = CellOf(m, m.q[b])
        /\ \A x \in QRegs : QView(m)[x] = CellOf(m, m.q[x])
    BY DEF QView
  <2>2. \A x \in QRegs : CellOf(n, n.q[x]) = IF x = b THEN QView(m)[a]
                                             ELSE IF x = a THEN QView(m)[b] ELSE QView(m)[x]
    BY <1>2, <1>3, <1>4, <2>1
  <2>3. DOMAIN QView(m) = QRegs
    BY DEF QView
  <2> QED BY <2>2, <2>3 DEF QView
<1>6. MemView(n) = MemView(m) /\ FileView(n, f) = FileView(m, f)
  BY <1>3, <1>4 DEF MemView, FileView
<1> QED BY <1>3, <1>5, <1>6 DEF n, Exchanged

\* QLOAD: the state of the slot, as noise leaves it, is in the register.
LEMMA LoadedShows ==
    ASSUME NEW m, NEW f \in Regs, NEW o, Good(m, f, o), NEW r \in QRegs, NEW slot \in Slots,
           m.mem[slot] # None, NEW s \in State
    PROVE  Moved(Loaded(m, r, slot, s), m, f, r, s, slot, None)
<1> DEFINE q == m.q
           mem == m.mem
           states == m.states
           h == mem[slot]
           n == Loaded(m, r, slot, s)
           p == SetQreg(m, r, h)
<1>1. /\ m \in Machine /\ q \in Regs /\ mem \in Mems /\ states \in Table
      /\ Owned(q, mem, f, states, m.next, o)
      /\ mem[slot] # None
  BY MachineFields DEF Good
<1>2. h \in Handles /\ h \in Handle /\ h # None /\ p = SetQreg(m, r, h)
  BY <1>1, NoneApart DEF Mems, Handle
<1>3. n = [p EXCEPT !.mem = [p.mem EXCEPT ![slot] = None],
                    !.states = [p.states EXCEPT ![h] = s], !.pairs = Paid(m), !.qf = TRUE]
  BY DEF Loaded
<1> HIDE DEF p, n, h
<1>4. /\ p \in Machine /\ p.q = [m.q EXCEPT ![r] = h] /\ p.mem = m.mem
      /\ \A x \in Handles : p.states[x] = IF x = m.q[r] THEN None ELSE m.states[x]
  BY <1>1, <1>2, SetQregFields
<1>5. /\ n.q = [q EXCEPT ![r] = h] /\ n.mem = [mem EXCEPT ![slot] = None]
      /\ n.states = [p.states EXCEPT ![h] = s] /\ n.pairs = Paid(m)
  BY <1>3, <1>4 DEF Machine
<1>6. \A x \in Handles : n.states[x] = IF x = h THEN s ELSE IF x = q[r] THEN None ELSE states[x]
  <2>1. DOMAIN p.states = Handles
    BY <1>4 DEF Machine
  <2> QED BY <1>2, <1>4, <1>5, <2>1
<1> HIDE DEF q, mem, states
<1>7. \A x \in QRegs : CellOf(n, n.q[x]) = IF x = r THEN s ELSE CellOf(m, q[x])
  <2> SUFFICES ASSUME NEW x \in QRegs
               PROVE  CellOf(n, n.q[x]) = IF x = r THEN s ELSE CellOf(m, q[x])
    OBVIOUS
  <2>1. n.q[x] = IF x = r THEN h ELSE q[x]
    BY <1>1, <1>5 DEF Regs
  <2>2. CASE x = r
    BY <1>2, <1>6, <2>1, <2>2 DEF CellOf
  <2>3. CASE x # r
    <3>1. q[x] # None => q[x] # q[r] /\ q[x] \in Handles /\ q[x] # h
      BY <1>1, <2>3 DEF Owned, Single, Regs, Handle, h
    <3> QED BY <1>6, <2>1, <2>3, <3>1 DEF CellOf, states
  <2> QED BY <2>2, <2>3
<1>8. \A x \in Slots : CellOf(n, n.mem[x]) = IF x = slot THEN None ELSE CellOf(m, mem[x])
  <2> SUFFICES ASSUME NEW x \in Slots, x # slot, mem[x] # None
               PROVE  n.states[mem[x]] = states[mem[x]]
    BY <1>1, <1>5 DEF CellOf, Mems, states
  <2>1. mem[x] # q[r] /\ mem[x] # h /\ mem[x] \in Handles
    BY <1>1 DEF Owned, Single, Mems, Handle, h
  <2> QED BY <1>6, <2>1
<1>9. \A x \in QRegs : CellOf(n, f[x]) = CellOf(m, f[x])
  <2> SUFFICES ASSUME NEW x \in QRegs, f[x] # None
               PROVE  n.states[f[x]] = states[f[x]]
    BY DEF CellOf, states
  <2>1. f[x] # q[r] /\ f[x] # h /\ f[x] \in Handles
    BY <1>1 DEF Owned, Single, Regs, Handle, h
  <2> QED BY <1>6, <2>1
<1> QED BY <1>5, <1>7, <1>8, <1>9 DEF Moved, QView, MemView, FileView, q, mem, n

\* QSTORE: the state of the register, as noise leaves it, is in the slot.
LEMMA StoredShows ==
    ASSUME NEW m, NEW f \in Regs, NEW o, Good(m, f, o), NEW r \in QRegs, NEW slot \in Slots,
           m.q[r] # None, NEW s \in State
    PROVE  Moved(Stored(m, r, slot, s), m, f, r, None, slot, s)
<1> DEFINE q == m.q
           mem == m.mem
           states == m.states
           h == q[r]
           n == Stored(m, r, slot, s)
           st == [x \in Handles |-> IF x = mem[slot] THEN None ELSE states[x]]
<1>1. /\ m \in Machine /\ q \in Regs /\ mem \in Mems /\ states \in Table
      /\ Owned(q, mem, f, states, m.next, o)
      /\ q[r] # None
  BY MachineFields DEF Good
<1>2. h \in Handles /\ h # None
  BY <1>1, NoneApart DEF Regs, Handle
<1>3. Release(m, m.mem[slot]) = [m EXCEPT !.states = st]
  <2>1. m.mem[slot] \in Handle
    BY <1>1 DEF Mems
  <2> QED BY <1>1, <2>1, ReleaseFields
<1> HIDE DEF st
<1>5. /\ n.q = [q EXCEPT ![r] = None] /\ n.mem = [mem EXCEPT ![slot] = h]
      /\ n.states = [st EXCEPT ![h] = s] /\ n.pairs = Paid(m)
  BY <1>1, <1>3 DEF Stored, Machine
<1> HIDE DEF q, mem, states, n, h
<1>6. \A x \in Handles : n.states[x] = IF x = h THEN s
                                       ELSE IF x = mem[slot] THEN None ELSE states[x]
  BY <1>2, <1>5 DEF st
<1>7. \A x \in QRegs : CellOf(n, n.q[x]) = IF x = r THEN None ELSE CellOf(m, q[x])
  <2> SUFFICES ASSUME NEW x \in QRegs, x # r, q[x] # None
               PROVE  n.states[q[x]] = states[q[x]]
    BY <1>1, <1>5 DEF CellOf, Regs, states
  <2>1. q[x] # h /\ q[x] # mem[slot] /\ q[x] \in Handles
    BY <1>1 DEF Owned, Single, Regs, Handle, h
  <2> QED BY <1>6, <2>1
<1>8. \A x \in Slots : CellOf(n, n.mem[x]) = IF x = slot THEN s ELSE CellOf(m, mem[x])
  <2> SUFFICES ASSUME NEW x \in Slots
               PROVE  CellOf(n, n.mem[x]) = IF x = slot THEN s ELSE CellOf(m, mem[x])
    OBVIOUS
  <2>1. n.mem[x] = IF x = slot THEN h ELSE mem[x]
    BY <1>1, <1>5 DEF Mems
  <2>2. CASE x = slot
    BY <1>2, <1>6, <2>1, <2>2 DEF CellOf
  <2>3. CASE x # slot
    <3>1. mem[x] # None => mem[x] # mem[slot] /\ mem[x] \in Handles /\ mem[x] # h
      BY <1>1, <2>3 DEF Owned, Single, Mems, Handle, h
    <3> QED BY <1>6, <2>1, <2>3, <3>1 DEF CellOf, states
  <2> QED BY <2>2, <2>3
<1>9. \A x \in QRegs : CellOf(n, f[x]) = CellOf(m, f[x])
  <2> SUFFICES ASSUME NEW x \in QRegs, f[x] # None
               PROVE  n.states[f[x]] = states[f[x]]
    BY DEF CellOf, states
  <2>1. f[x] # h /\ f[x] # mem[slot] /\ f[x] \in Handles
    BY <1>1 DEF Owned, Single, Regs, Handle, h
  <2> QED BY <1>6, <2>1
<1> QED BY <1>5, <1>7, <1>8, <1>9 DEF Moved, QView, MemView, FileView, q, mem, n

-----------------------------------------------------------------------------
(***************************************************************************)
(* The cells of all threads.                                               *)
(***************************************************************************)
regBar == [t \in Tids |-> QView(vm[t])]
memBar == [t \in Tids |-> MemView(vm[t])]
filedBar == FileView(vm[0], qfile)
pairsBar == [t \in Tids |-> vm[t].pairs]

\* In this step the cells of thread t become those of machine n, and no other changes.
Becomes(t, n) ==
    /\ regBar' = [regBar EXCEPT ![t] = QView(n)]
    /\ memBar' = [memBar EXCEPT ![t] = MemView(n)]
    /\ filedBar' = filedBar
    /\ pairsBar' = [pairsBar EXCEPT ![t] = n.pairs]

\* Thread t has machine n from now on.
LEMMA MachineChanges ==
    ASSUME NEW t \in Tids, NEW n, \A u \in Tids : vm'[u] = IF u = t THEN n ELSE vm[u]
    PROVE  /\ regBar' = [regBar EXCEPT ![t] = QView(n)]
           /\ memBar' = [memBar EXCEPT ![t] = MemView(n)]
           /\ pairsBar' = [pairsBar EXCEPT ![t] = n.pairs]
<1>1. regBar' = [regBar EXCEPT ![t] = QView(n)]
  BY DEF regBar, QView, CellOf
<1>2. memBar' = [memBar EXCEPT ![t] = MemView(n)]
  BY DEF memBar, MemView, CellOf
<1>3. pairsBar' = [pairsBar EXCEPT ![t] = n.pairs]
  BY DEF pairsBar
<1> QED BY <1>1, <1>2, <1>3

LEMMA MachineShows ==
    ASSUME NEW t \in Tids, NEW n, \A u \in Tids : vm'[u] = IF u = t THEN n ELSE vm[u],
           qfile' = qfile, FileView(n, qfile) = FileView(vm[t], qfile)
    PROVE  Becomes(t, n)
<1>1. filedBar' = filedBar
  BY ZeroTid DEF filedBar, FileView, CellOf
<1> QED BY <1>1, MachineChanges DEF Becomes

LEMMA RetireShows ==
    ASSUME OwnInv, NEW t \in Tids, NEW n, Retire(t, n),
           FileView(n, qfile) = FileView(vm[t], qfile)
    PROVE  Becomes(t, n)
<1>1. \A u \in Tids : vm'[u] = IF u = t THEN n ELSE vm[u]
  BY DEF OwnInv, TypeOK, Retire
<1> QED BY <1>1, MachineShows DEF Retire, region

\* A worker that leaves takes its cells along; thread 0 keeps them.
LEMMA LeaveShows ==
    ASSUME OwnInv, NEW t \in Tids, NEW n, NEW how, Leave(t, n, how),
           t = 0 => FileView(n, qfile) = FileView(vm[t], qfile)
    PROVE  /\ t = 0 => Becomes(t, n)
           /\ t # 0 => Cells!Vanish(t)
<1>1. CASE t = 0
  <2>1. \A u \in Tids : vm'[u] = IF u = t THEN n ELSE vm[u]
    BY <1>1 DEF OwnInv, TypeOK, Leave
  <2> QED BY <1>1, <2>1, MachineShows DEF Leave, region
<1>2. CASE t # 0
  <2>1. vm' = [vm EXCEPT ![t] = NewMachine] /\ qfile' = qfile
    BY <1>2 DEF Leave, region
  <2>2. \A u \in Tids : vm'[u] = IF u = t THEN NewMachine ELSE vm[u]
    BY <2>1 DEF OwnInv, TypeOK
  <2>3. /\ QView(NewMachine) = Empty
        /\ MemView(NewMachine) = [s \in Slots |-> None]
        /\ NewMachine.pairs = Budget
    BY DEF QView, MemView, CellOf, NewMachine, Empty
  <2>4. /\ regBar' = [regBar EXCEPT ![t] = Empty]
        /\ memBar' = [memBar EXCEPT ![t] = [s \in Slots |-> None]]
        /\ pairsBar' = [pairsBar EXCEPT ![t] = Budget]
    <3>1. /\ regBar' = [regBar EXCEPT ![t] = QView(NewMachine)]
          /\ memBar' = [memBar EXCEPT ![t] = MemView(NewMachine)]
          /\ pairsBar' = [pairsBar EXCEPT ![t] = NewMachine.pairs]
      BY <2>2, MachineChanges
    <3> QED BY <2>3, <3>1
  <2>5. filedBar' = filedBar
    BY <1>2, <2>1, <2>2, ZeroTid DEF filedBar, FileView, CellOf
  <2> QED BY <1>2, <2>4, <2>5
          DEF Cells!Vanish, Cells!Empty, Empty, regBar, memBar, pairsBar, filedBar,
              QView, MemView, FileView
<1> QED BY <1>1, <1>2

\* Nothing shows when the cells stay.
LEMMA SameShows ==
    ASSUME NEW t \in Tids, NEW n, Becomes(t, n),
           QView(n) = QView(vm[t]), MemView(n) = MemView(vm[t]), n.pairs = vm[t].pairs
    PROVE  UNCHANGED Cells!cells
<1>1. regBar' = regBar
  BY DEF Becomes, regBar
<1>2. memBar' = memBar
  BY DEF Becomes, memBar
<1>3. pairsBar' = pairsBar
  BY DEF Becomes, pairsBar
<1> QED BY <1>1, <1>2, <1>3 DEF Becomes, Cells!cells, regBar, memBar, pairsBar, filedBar,
                                QView, MemView, FileView

\* A step on registers alone, seen from QuantumCells.
LEMMA ComputeShows ==
    ASSUME NEW t \in Tids, NEW n, Becomes(t, n),
           MemView(n) = MemView(vm[t]), n.pairs = vm[t].pairs,
           \/ \E dst \in QRegs : Cells!Prepare(t, dst)
           \/ \E src \in QRegs : Cells!Observe(t, src)
           \/ \E a, b \in QRegs :
                 Cells!Rebuild(t, a, b) \/ Cells!Destroy(t, a, b) \/ Cells!Exchange(t, a, b)
           \/ \E dst, a, b \in QRegs : Cells!Join(t, dst, a, b)
    PROVE  Cells!Next
<1>1. memBar' = memBar /\ pairsBar' = pairsBar /\ filedBar' = filedBar
  BY DEF Becomes, memBar, pairsBar
<1>2. Cells!Compute(t)
  BY <1>1 DEF Cells!Compute, memBar, pairsBar, filedBar, MemView, FileView
<1> QED BY <1>2 DEF Cells!Next, Cells!Tids, Tids

LEMMA BarRegisters ==
    /\ regBar = [t \in Tids |-> [r \in QRegs |-> CellOf(vm[t], vm[t].q[r])]]
    /\ \A t \in Tids : regBar[t] = QView(vm[t])
    /\ \A t \in Tids, r \in QRegs : regBar[t][r] = CellOf(vm[t], vm[t].q[r])
BY DEF regBar, QView

\* The same states by the names of the abstract specification.
LEMMA SameStates ==
    /\ Cells!State = State
    /\ \A k : Cells!Of(k) = Of(k)
    /\ \A s : Cells!Teleported(s) = Teleported(s)
BY DEF Cells!State, State, Cells!Of, Of, Cells!Teleported, Teleported

\* A register gets a state.
LEMMA PrepareShows ==
    ASSUME NEW t \in Tids, NEW n, Becomes(t, n), NEW r \in QRegs, NEW s \in State,
           Replaced(n, vm[t], qfile, r, s)
    PROVE  Cells!Next
<1>1. regBar' = [regBar EXCEPT ![t][r] = s]
  BY BarRegisters DEF Becomes, Replaced
<1>2. Cells!Prepare(t, r)
  BY <1>1, SameStates DEF Cells!Prepare, regBar, QView
<1> QED BY <1>2, ComputeShows DEF Replaced

\* A register is used up.
LEMMA ObserveShows ==
    ASSUME NEW t \in Tids, NEW n, Becomes(t, n), NEW r \in QRegs,
           Replaced(n, vm[t], qfile, r, None), CellOf(vm[t], vm[t].q[r]) # None
    PROVE  Cells!Next
<1>1. regBar' = [regBar EXCEPT ![t][r] = None] /\ regBar[t][r] # None
  BY BarRegisters DEF Becomes, Replaced
<1>2. Cells!Observe(t, r)
  BY <1>1 DEF Cells!Observe, regBar, QView
<1> QED BY <1>2, ComputeShows DEF Replaced

\* A register is used up and the result is in another one or in the same.
LEMMA RebuildShows ==
    ASSUME NEW t \in Tids, NEW n, Becomes(t, n), NEW dst \in QRegs, NEW src \in QRegs,
           NEW used, Replaced(used, vm[t], qfile, src, None),
           CellOf(vm[t], vm[t].q[src]) # None,
           NEW s \in Of(CellOf(vm[t], vm[t].q[src]).qubits), Replaced(n, used, qfile, dst, s)
    PROVE  Cells!Next
<1>1. /\ regBar' = [regBar EXCEPT ![t][src] = None, ![t][dst] = s]
      /\ regBar[t][src] # None /\ s \in Of(regBar[t][src].qubits)
  BY BarRegisters DEF Becomes, Replaced
<1>2. Cells!Rebuild(t, dst, src)
  BY <1>1, SameStates DEF Cells!Rebuild, regBar, QView
<1> QED BY <1>2, ComputeShows DEF Replaced

\* Two registers are used up, and the result, if there is one, is in a third.
LEMMA JoinShows ==
    ASSUME NEW t \in Tids, NEW n, Becomes(t, n),
           NEW a \in QRegs, NEW b \in QRegs, a # b,
           CellOf(vm[t], vm[t].q[a]) # None, CellOf(vm[t], vm[t].q[b]) # None,
           NEW one, Replaced(one, vm[t], qfile, a, None),
           NEW both, Replaced(both, one, qfile, b, None),
           \/ n = both
           \/ \E dst \in QRegs :
              \E s \in Of(CellOf(vm[t], vm[t].q[a]).qubits + CellOf(vm[t], vm[t].q[b]).qubits) :
                 Replaced(n, both, qfile, dst, s)
    PROVE  Cells!Next
<1>1. regBar[t][a] # None /\ regBar[t][b] # None
  BY BarRegisters
<1>2. CASE n = both
  <2>1. regBar' = [regBar EXCEPT ![t][a] = None, ![t][b] = None]
    BY <1>2, BarRegisters DEF Becomes, Replaced
  <2>2. Cells!Destroy(t, a, b)
    BY <1>1, <2>1 DEF Cells!Destroy, regBar, QView
  <2> QED BY <1>2, <2>2, ComputeShows DEF Replaced
<1>3. ASSUME NEW dst \in QRegs,
             NEW s \in Of(regBar[t][a].qubits + regBar[t][b].qubits),
             Replaced(n, both, qfile, dst, s)
      PROVE  Cells!Next
  <2>1. regBar' = [regBar EXCEPT ![t][a] = None, ![t][b] = None, ![t][dst] = s]
    <3>1. regBar' = [regBar EXCEPT ![t] = QView(n)]
      BY DEF Becomes
    <3>2. QView(n) = [regBar[t] EXCEPT ![a] = None, ![b] = None, ![dst] = s]
      BY <1>3, BarRegisters DEF Replaced
    <3> QED BY <3>1, <3>2, BarRegisters
  <2>2. Cells!Join(t, dst, a, b)
    BY <1>1, <1>3, <2>1, SameStates DEF Cells!Join, regBar, QView
  <2> QED BY <1>3, <2>2, ComputeShows DEF Replaced
<1> QED BY <1>2, <1>3, BarRegisters

\* A thread leaves, and what it leaves shows, if it is thread 0, as an allowed step.
LEMMA LeaveStep ==
    ASSUME OwnInv, NEW t \in Tids, NEW n, NEW how, Leave(t, n, how),
           FileView(n, qfile) = FileView(vm[t], qfile),
           Becomes(t, n) => Cells!Next
    PROVE  Cells!Next
<1>1. CASE t = 0
  BY <1>1, LeaveShows
<1>2. CASE t # 0
  BY <1>2, LeaveShows DEF Cells!Next, Cells!Tids, Tids
<1> QED BY <1>1, <1>2

\* A machine that shows what the thread has.
Same(n, m, f) ==
    /\ QView(n) = QView(m) /\ MemView(n) = MemView(m)
    /\ FileView(n, f) = FileView(m, f) /\ n.pairs = m.pairs

LEMMA SameStep ==
    ASSUME OwnInv, NEW t \in Tids, NEW n, Same(n, vm[t], qfile),
           Retire(t, n) \/ \E how : Leave(t, n, how)
    PROVE  Cells!Next
<1>1. Becomes(t, n) => Cells!Next
  BY SameShows DEF Same, Cells!Next, Cells!Refuse
<1>2. CASE Retire(t, n)
  BY <1>1, <1>2, RetireShows DEF Same
<1>3. ASSUME NEW how, Leave(t, n, how) PROVE Cells!Next
  BY <1>1, <1>3, LeaveStep DEF Same
<1> QED BY <1>2, <1>3

\* An instruction that is refused without a trace.
LEMMA FaultStep == ASSUME OwnInv, NEW t \in Tids, Fault(t, vm[t]) PROVE Cells!Next
BY SameStep DEF Same, Fault

LEMMA StopStep == ASSUME OwnInv, NEW t \in Tids, Stop(t) PROVE Cells!Next
BY SameStep DEF Same, Stop

\* The machine of a thread that executes.
LEMMA ExecutingGood ==
    ASSUME OwnInv, NEW t \in Tids, Executes(t)
    PROVE  vm[t] \in Machine /\ qfile \in Regs /\ Good(vm[t], qfile, overwritten)
BY DEF OwnInv, TypeOK, Executes, Current, Good, Regs

\* A register that is named shows its state.
LEMMA StateShows ==
    ASSUME NEW m, NEW f, NEW o, Good(m, f, o), NEW r \in QRegs, m.q[r] # None
    PROVE  CellOf(m, m.q[r]) = StateIn(m, r) /\ StateIn(m, r) \in State
           /\ CellOf(m, m.q[r]) # None
BY NamedState, NoneApart DEF CellOf, StateIn

-----------------------------------------------------------------------------
(***************************************************************************)
(* One lemma per instruction.                                              *)
(***************************************************************************)
\* A new state in a register: preparation, gates, partial trace.
LEMMA FillStep ==
    ASSUME OwnInv, NEW t \in Tids, Executes(t), Room(vm[t], 1), NEW r \in QRegs, NEW s \in State,
           Retire(t, [Filled(vm[t], r, s) EXCEPT !.qf = TRUE])
    PROVE  Cells!Next
<1> DEFINE n == [Filled(vm[t], r, s) EXCEPT !.qf = TRUE]
<1>1. Replaced(n, vm[t], qfile, r, s)
  BY ExecutingGood, FilledShows
<1>2. Retire(t, n)
  OBVIOUS
<1> HIDE DEF n
<1>3. Becomes(t, n)
  BY <1>1, <1>2, RetireShows DEF Replaced
<1> QED BY <1>1, <1>3, PrepareShows

LEMMA QPrepStep ==
    ASSUME OwnInv, NEW t \in Tids, NEW dst \in QRegs, QPrep(t, dst) PROVE Cells!Next
BY FaultStep, FillStep DEF QPrep

LEMMA QKernelStep ==
    ASSUME OwnInv, NEW t \in Tids, NEW dst \in QRegs, NEW src \in QRegs, QKernel(t, dst, src)
    PROVE  Cells!Next
BY FaultStep, FillStep DEF QKernel, Gate, Of

LEMMA QPtraceStep ==
    ASSUME OwnInv, NEW t \in Tids, NEW dst \in QRegs, NEW src \in QRegs, QPtrace(t, dst, src)
    PROVE  Cells!Next
BY FaultStep, FillStep DEF QPtrace

LEMMA QMaskedStep ==
    ASSUME OwnInv, NEW t \in Tids, NEW dst \in QRegs, NEW src \in QRegs, QMasked(t, dst, src)
    PROVE  Cells!Next
<1> DEFINE m == vm[t]
<1>1. Executes(t) /\ Good(m, qfile, overwritten) /\ qfile \in Regs /\ m \in Machine
  BY ExecutingGood DEF QMasked
<1>2. CASE m.q[src] = None /\ Fault(t, m)
  BY <1>2, FaultStep
<1>3. CASE /\ m.q[src] # None
           /\ dst = src \/ Room(m, 1)
           /\ Retire(t, [Unmasked(m, dst, src) EXCEPT !.qf = TRUE])
  <2>1. CASE dst = src
    <3> DEFINE n == [m EXCEPT !.qf = TRUE]
    <3>1. Same(n, m, qfile)
      BY <1>1, FlagShowsNothing DEF Same
    <3>2. Retire(t, n)
      BY <1>3, <2>1 DEF Unmasked
    <3> HIDE DEF n
    <3> QED BY <3>1, <3>2, SameStep
  <2>2. CASE dst # src
    BY <1>1, <1>3, <2>2, StateShows, FillStep DEF Unmasked
  <2> QED BY <2>1, <2>2
<1>4. ASSUME m.q[src] # None, NEW k \in 1 .. StateIn(m, src).qubits, NEW s \in State,
             Room(m, k),
             Retire(t, [SetQreg(Gates(m, k, s), dst, m.next + k - 1) EXCEPT !.qf = TRUE])
      PROVE  Cells!Next
  <2> DEFINE n == [SetQreg(Gates(m, k, s), dst, m.next + k - 1) EXCEPT !.qf = TRUE]
  <2>1. k \in Nat \ {0}
    BY <1>1, <1>4, NamedState, QubitsType
  <2>2. Replaced(n, m, qfile, dst, s)
    BY <1>1, <1>4, <2>1, GatesShow
  <2>3. Retire(t, n)
    BY <1>4
  <2> HIDE DEF n
  <2>4. Becomes(t, n)
    BY <2>2, <2>3, RetireShows DEF Replaced
  <2> QED BY <2>2, <2>4, PrepareShows
<1> QED BY <1>2, <1>3, <1>4 DEF QMasked, Of

\* QMEAS, QRESET, QPREPS.
LEMMA RebuildStep ==
    ASSUME OwnInv, NEW t \in Tids, NEW dst \in QRegs, NEW src \in QRegs, Rebuild(t, dst, src)
    PROVE  Cells!Next
<1> DEFINE m == vm[t]
           used == Consumed(m, src)
<1>1. /\ Executes(t) /\ Good(m, qfile, overwritten)
      /\ qfile \in Regs /\ m \in Machine
  BY ExecutingGood DEF Rebuild
<1>2. CASE Fault(t, m)
  BY <1>2, FaultStep
<1>3. ASSUME m.q[src] # None, NEW s \in Of(StateIn(m, src).qubits), Room(m, 1),
             Retire(t, [Filled(used, dst, s) EXCEPT !.qf = TRUE])
      PROVE  Cells!Next
  <2> DEFINE n == [Filled(used, dst, s) EXCEPT !.qf = TRUE]
  <2>0. s \in State
    BY <1>3 DEF Of
  <2>1. Good(used, qfile, overwritten) /\ used.next = m.next
    BY <1>1, GoodConsumed
  <2>2. Replaced(used, m, qfile, src, None)
    BY <1>1, ConsumedShows
  <2>3. Retire(t, n)
    BY <1>3
  <2> HIDE DEF used
  <2>4. Room(used, 1)
    BY <1>3, <2>1 DEF Room
  <2>5. Replaced(n, used, qfile, dst, s)
    BY <1>1, <2>0, <2>1, <2>4, FilledShows
  <2> HIDE DEF n
  <2>6. Becomes(t, n)
    BY <2>2, <2>3, <2>5, RetireShows DEF Replaced
  <2>7. /\ CellOf(m, m.q[src]) # None
        /\ s \in Of(CellOf(m, m.q[src]).qubits)
    BY <1>1, <1>3, StateShows
  <2> QED BY <2>2, <2>5, <2>6, <2>7, RebuildShows
<1> QED BY <1>2, <1>3 DEF Rebuild

\* PROB that fails has used its register up like one that succeeds.
LEMMA QObserveStep ==
    ASSUME OwnInv, NEW t \in Tids, NEW src \in QRegs, QObserve(t, src)
    PROVE  Cells!Next
<1> DEFINE m == vm[t]
           used == Consumed(m, src)
           n == [used EXCEPT !.qf = FALSE]
<1>1. /\ Executes(t) /\ Good(m, qfile, overwritten)
      /\ qfile \in Regs /\ m \in Machine
  BY ExecutingGood DEF QObserve
<1>2. CASE m.q[src] = None
  BY <1>2, FaultStep DEF QObserve
<1>3. CASE m.q[src] # None
  <2>1. used \in Machine /\ Replaced(used, m, qfile, src, None)
    BY <1>1, GoodConsumed, ConsumedShows DEF Good
  <2>2. Leave(t, used, "failed") \/ Retire(t, n)
    BY <1>3 DEF QObserve, Fault
  <2> HIDE DEF used
  <2>3. Replaced(n, m, qfile, src, None)
    BY <2>1, QfShows
  <2> HIDE DEF n
  <2>4. ASSUME NEW x \in {used, n}, Becomes(t, x) PROVE Cells!Next
    BY <1>1, <1>3, <2>1, <2>3, <2>4, StateShows, ObserveShows
  <2>5. CASE Retire(t, n)
    <3>1. Becomes(t, n)
      BY <2>3, <2>5, RetireShows DEF Replaced
    <3> QED BY <2>4, <3>1
  <2>6. CASE Leave(t, used, "failed")
    <3>1. Becomes(t, used) => Cells!Next
      BY <2>4
    <3> QED BY <2>1, <2>6, <3>1, LeaveStep DEF Replaced
  <2> QED BY <2>2, <2>5, <2>6
<1> QED BY <1>2, <1>3

LEMMA QTensorStep ==
    ASSUME OwnInv, NEW t \in Tids, NEW dst \in QRegs, NEW a \in QRegs, NEW b \in QRegs,
           QTensor(t, dst, a, b)
    PROVE  Cells!Next
<1> DEFINE m == vm[t]
           one == Consumed(m, a)
           both == Consumed(one, b)
           n(s) == [Filled(both, dst, s) EXCEPT !.qf = TRUE]
           qubits == StateIn(m, a).qubits + StateIn(m, b).qubits
<1>1. /\ Executes(t) /\ Good(m, qfile, overwritten)
      /\ qfile \in Regs /\ m \in Machine
  BY ExecutingGood DEF QTensor
<1>2. CASE Fault(t, m)
  BY <1>2, FaultStep
<1>3. CASE /\ a # b /\ m.q[a] # None /\ m.q[b] # None
           /\ \/ Fault(t, both)
              \/ Room(m, 1) /\ \E s \in Of(qubits) : Retire(t, n(s))
  <2>1. Good(one, qfile, overwritten) /\ one.next = m.next
    BY <1>1, GoodConsumed
  <2>2. Replaced(one, m, qfile, a, None)
    BY <1>1, ConsumedShows
  <2> HIDE DEF one
  <2>3. Good(both, qfile, overwritten) /\ both.next = m.next
    BY <1>1, <2>1, GoodConsumed
  <2>4. Replaced(both, one, qfile, b, None)
    BY <1>1, <2>1, ConsumedShows
  <2>5. /\ CellOf(m, m.q[a]) # None /\ CellOf(m, m.q[a]) = StateIn(m, a)
        /\ CellOf(m, m.q[b]) # None /\ CellOf(m, m.q[b]) = StateIn(m, b)
    BY <1>1, <1>3, StateShows
  <2> HIDE DEF both
  <2>6. CASE Fault(t, both)
    <3>1. Becomes(t, both) => Cells!Next
      BY <1>3, <2>2, <2>4, <2>5, JoinShows
    <3>2. FileView(both, qfile) = FileView(m, qfile)
      BY <2>2, <2>4 DEF Replaced
    <3> QED BY <2>6, <3>1, <3>2, LeaveStep DEF Fault
  <2>7. ASSUME Room(m, 1), NEW s \in Of(qubits), Retire(t, n(s))
        PROVE  Cells!Next
    <3> DEFINE p == n(s)
    <3>1. Room(both, 1) /\ s \in State
      BY <2>3, <2>7 DEF Room, Of
    <3>2. Replaced(p, both, qfile, dst, s)
      BY <1>1, <2>3, <3>1, FilledShows
    <3>3. Retire(t, p)
      BY <2>7
    <3> HIDE DEF p
    <3>4. FileView(p, qfile) = FileView(m, qfile)
      BY <2>2, <2>4, <3>2 DEF Replaced
    <3>5. Becomes(t, p)
      BY <3>3, <3>4, RetireShows
    <3>6. s \in Of(CellOf(m, m.q[a]).qubits + CellOf(m, m.q[b]).qubits)
      BY <2>5, <2>7
    <3> QED BY <1>3, <2>2, <2>4, <2>5, <3>2, <3>5, <3>6, JoinShows
  <2> QED BY <1>3, <2>6, <2>7
<1> QED BY <1>2, <1>3 DEF QTensor, Refused

LEMMA QXchStep ==
    ASSUME OwnInv, NEW t \in Tids, NEW a \in QRegs, NEW b \in QRegs, QXch(t, a, b)
    PROVE  Cells!Next
<1> DEFINE m == vm[t]
           n == [m EXCEPT !.q[a] = m.q[b], !.q[b] = m.q[a]]
<1>1. m \in Machine
  BY ExecutingGood DEF QXch
<1>2. CASE Fault(t, m)
  BY <1>2, FaultStep
<1>3. CASE Retire(t, n)
  <2>1. Exchanged(n, m, qfile, a, b)
    BY <1>1, ExchangeShows
  <2> HIDE DEF n
  <2>2. Becomes(t, n)
    BY <1>3, <2>1, RetireShows DEF Exchanged
  <2>3. regBar' = [regBar EXCEPT ![t][a] = regBar[t][b], ![t][b] = regBar[t][a]]
    BY <2>1, <2>2, BarRegisters DEF Becomes, Exchanged
  <2>4. Cells!Exchange(t, a, b)
    BY <2>3 DEF Cells!Exchange, regBar, QView
  <2> QED BY <2>1, <2>2, <2>4, ComputeShows DEF Exchanged
<1> QED BY <1>2, <1>3 DEF QXch

\* A Bell pair is used.
LEMMA PayStep ==
    ASSUME NEW t \in Tids, vm[t] \in Machine, ~Exhausted(vm[t]),
           pairsBar' = [pairsBar EXCEPT ![t] = Paid(vm[t])]
    PROVE  Cells!Pay(t)
<1>1. pairsBar[t] = vm[t].pairs /\ vm[t].pairs \in 0 .. Budget
  BY MachineFields DEF pairsBar
<1>2. CASE Budget = 0
  BY <1>1, <1>2 DEF Cells!Pay, Paid, pairsBar
<1>3. CASE Budget # 0
  BY <1>1, <1>3, SizesAssumption DEF Cells!Pay, Paid, Exhausted, pairsBar
<1> QED BY <1>2, <1>3

LEMMA QLoadStep ==
    ASSUME OwnInv, NEW t \in Tids, NEW dst \in QRegs, NEW slot \in Slots, QLoad(t, dst, slot)
    PROVE  Cells!Next
<1> DEFINE m == vm[t]
<1>1. /\ Executes(t) /\ Good(m, qfile, overwritten)
      /\ qfile \in Regs /\ m \in Machine
  BY ExecutingGood DEF QLoad
<1>2. CASE Fault(t, m)
  BY <1>2, FaultStep
<1>3. ASSUME m.mem[slot] # None, ~Exhausted(m), NEW s \in Teleported(m.states[m.mem[slot]]),
             Retire(t, Loaded(m, dst, slot, s))
      PROVE  Cells!Next
  <2> DEFINE n == Loaded(m, dst, slot, s)
  <2>1. /\ m.states[m.mem[slot]] \in State /\ s \in State
        /\ m.states[m.mem[slot]] # None
    BY <1>1, <1>3, NamedState, TeleportedType, NoneApart
  <2>2. Moved(n, m, qfile, dst, s, slot, None)
    BY <1>1, <1>3, <2>1, LoadedShows
  <2>3. Retire(t, n)
    BY <1>3
  <2> HIDE DEF n
  <2>4. Becomes(t, n)
    BY <2>2, <2>3, RetireShows DEF Moved
  <2>5. /\ regBar' = [regBar EXCEPT ![t][dst] = s]
        /\ memBar' = [memBar EXCEPT ![t][slot] = None]
        /\ filedBar' = filedBar
        /\ pairsBar' = [pairsBar EXCEPT ![t] = Paid(m)]
    BY <2>2, <2>4 DEF Becomes, Moved, regBar, memBar
  <2>6. memBar[t][slot] = m.states[m.mem[slot]]
    BY <1>3 DEF memBar, MemView, CellOf
  <2>7. Cells!Pay(t)
    BY <1>1, <1>3, <2>5, PayStep
  <2>8. Cells!Load(t, dst, slot)
    <3>1. memBar[t][slot] # None /\ s \in Teleported(memBar[t][slot])
      BY <1>3, <2>1, <2>6
    <3> QED BY <2>5, <2>7, <3>1, SameStates
            DEF Cells!Load, regBar, memBar, filedBar, QView, MemView, FileView
  <2> QED BY <2>8 DEF Cells!Next, Cells!Tids, Tids
<1> QED BY <1>2, <1>3 DEF QLoad

LEMMA QStoreStep ==
    ASSUME OwnInv, NEW t \in Tids, NEW src \in QRegs, NEW slot \in Slots, QStore(t, src, slot)
    PROVE  Cells!Next
<1> DEFINE m == vm[t]
<1>1. /\ Executes(t) /\ Good(m, qfile, overwritten)
      /\ qfile \in Regs /\ m \in Machine
  BY ExecutingGood DEF QStore
<1>2. CASE Fault(t, m)
  BY <1>2, FaultStep
<1>3. ASSUME m.q[src] # None, ~Exhausted(m), NEW s \in Teleported(StateIn(m, src)),
             Retire(t, Stored(m, src, slot, s))
      PROVE  Cells!Next
  <2> DEFINE n == Stored(m, src, slot, s)
  <2>1. StateIn(m, src) \in State /\ s \in State /\ StateIn(m, src) # None
    BY <1>1, <1>3, NamedState, TeleportedType, NoneApart
  <2>2. Moved(n, m, qfile, src, None, slot, s)
    BY <1>1, <1>3, <2>1, StoredShows
  <2>3. Retire(t, n)
    BY <1>3
  <2> HIDE DEF n
  <2>4. Becomes(t, n)
    BY <2>2, <2>3, RetireShows DEF Moved
  <2>5. /\ regBar' = [regBar EXCEPT ![t][src] = None]
        /\ memBar' = [memBar EXCEPT ![t][slot] = s]
        /\ filedBar' = filedBar
        /\ pairsBar' = [pairsBar EXCEPT ![t] = Paid(m)]
    BY <2>2, <2>4 DEF Becomes, Moved, regBar, memBar
  <2>6. regBar[t][src] = StateIn(m, src)
    BY <1>1, <1>3, StateShows, BarRegisters
  <2>7. Cells!Pay(t)
    BY <1>1, <1>3, <2>5, PayStep
  <2>8. Cells!Store(t, src, slot)
    <3>1. regBar[t][src] # None /\ s \in Teleported(regBar[t][src])
      BY <1>3, <2>1, <2>6
    <3> QED BY <2>5, <2>7, <3>1, SameStates
            DEF Cells!Store, regBar, memBar, filedBar, QView, MemView, FileView
  <2> QED BY <2>8 DEF Cells!Next, Cells!Tids, Tids
<1> QED BY <1>2, <1>3 DEF QStore

\* The forked flag shows nothing.
LEMMA ForkedSame ==
    ASSUME NEW m \in Machine, NEW f, NEW b \in BOOLEAN
    PROVE  Same([m EXCEPT !.forked = b], m, f)
BY FlagShowsNothing DEF Same

\* HFORK: every thread of the region has empty registers and thread 0's memory, and
\* the shared file has thread 0's registers.
LEMMA HForkStep ==
    ASSUME OwnInv, NEW t \in Tids, HFork(t)
    PROVE  Cells!Next
<1> DEFINE m == vm[t]
<1>1. m \in Machine
  BY ExecutingGood DEF HFork
<1>2. CASE Fault(t, m)
  BY <1>2, FaultStep
<1>3. CASE Retire(t, [m EXCEPT !.forked = TRUE])
  <2> DEFINE n == [m EXCEPT !.forked = TRUE]
  <2>1. Same(n, m, qfile)
    BY <1>1, ForkedSame
  <2>2. Retire(t, n)
    BY <1>3
  <2> HIDE DEF n
  <2> QED BY <2>1, <2>2, SameStep
<1>4. CASE /\ t = 0 /\ threads > 1
           /\ vm' = [w \in Tids |-> IF w < threads THEN Split(m) ELSE vm[w]]
           /\ qfile' = m.q
  <2>0. PICK k \in 2 .. N : k = threads
    BY <1>4, SizesAssumption DEF OwnInv, TypeOK
  <2> DEFINE n == Split(m)
  <2>1. n.q = Empty /\ n.mem = m.mem /\ n.states = m.states /\ n.pairs = m.pairs
    BY <1>1 DEF Split, Machine
  <2> HIDE DEF n
  <2>2. /\ QView(n) = Empty /\ MemView(n) = MemView(m)
        /\ FileView(n, m.q) = QView(m)
    BY <2>1 DEF QView, MemView, FileView, CellOf, Empty
  <2>3. \A w \in Tids : vm'[w] = IF w < k THEN n ELSE vm[w]
    BY <1>4, <2>0 DEF n
  <2>4. regBar' = [w \in Tids |-> IF w < k THEN Empty ELSE regBar[w]]
    BY <2>2, <2>3 DEF regBar, QView, CellOf
  <2>5. memBar' = [w \in Tids |-> IF w < k THEN memBar[0] ELSE memBar[w]]
    <3>1. memBar[0] = MemView(n)
      BY <1>4, <2>2, ZeroTid DEF memBar
    <3>2. memBar' = [w \in Tids |-> IF w < k THEN MemView(n) ELSE memBar[w]]
      BY <2>3 DEF memBar, MemView, CellOf
    <3> QED BY <3>1, <3>2
  <2>6. pairsBar' = [w \in Tids |-> IF w < k THEN pairsBar[0] ELSE pairsBar[w]]
    BY <1>4, <2>1, <2>3, ZeroTid DEF pairsBar
  <2>7. filedBar' = regBar[0]
    <3>1. vm'[0] = n
      BY <2>3, ZeroTid
    <3>2. filedBar' = FileView(n, m.q)
      BY <1>4, <3>1 DEF filedBar, FileView, CellOf
    <3>3. regBar[0] = QView(m)
      BY <1>4, BarRegisters
    <3> QED BY <2>2, <3>2, <3>3
  <2>8. Cells!Fork(k)
    BY <2>4, <2>5, <2>6, <2>7
       DEF Cells!Fork, Cells!Empty, Cells!Tids, Empty, Tids, regBar, memBar, pairsBar, filedBar,
           QView, MemView, FileView
  <2> QED BY <2>8 DEF Cells!Next
<1> QED BY <1>2, <1>3, <1>4 DEF HFork

\* HMERGE: thread 0 has its registers back.
LEMMA HMergeStep ==
    ASSUME OwnInv, NEW t \in Tids, HMerge(t)
    PROVE  Cells!Next
<1> DEFINE m == vm[t]
           merged == [m EXCEPT !.forked = FALSE]
<1>1. m \in Machine /\ qfile \in Regs
  BY ExecutingGood DEF HMerge
<1>2. CASE Fault(t, m) \/ Stop(t)
  BY <1>2, FaultStep, StopStep
<1>3. CASE Fault(t, merged) \/ Retire(t, merged)
  <2>1. Same(merged, m, qfile)
    BY <1>1, ForkedSame
  <2> HIDE DEF merged
  <2> QED BY <1>3, <2>1, SameStep DEF Fault
<1>4. CASE /\ t = 0
           /\ vm' = [vm EXCEPT ![0] = [merged EXCEPT !.q = qfile]]
           /\ qfile' = Empty
  <2> DEFINE n == [merged EXCEPT !.q = qfile]
  <2>1. n.q = qfile /\ n.mem = m.mem /\ n.states = m.states /\ n.pairs = m.pairs
    BY <1>1 DEF Machine
  <2> HIDE DEF merged, n
  <2>2. /\ QView(n) = FileView(m, qfile) /\ MemView(n) = MemView(m)
        /\ FileView(n, Empty) = Empty
    BY <2>1 DEF QView, MemView, FileView, CellOf, Empty
  <2>3. \A w \in Tids : vm'[w] = IF w = 0 THEN n ELSE vm[w]
    BY <1>4 DEF OwnInv, TypeOK, n
  <2>4. m = vm[0] /\ qfile' = Empty
    BY <1>4
  <2> HIDE DEF m
  <2>5. regBar' = [regBar EXCEPT ![0] = filedBar]
    <3>1. filedBar = QView(n)
      BY <2>2, <2>4 DEF filedBar
    <3> QED BY <2>3, <3>1 DEF regBar, QView, CellOf
  <2>6. memBar' = memBar
    <3>1. memBar' = [w \in Tids |-> IF w = 0 THEN MemView(n) ELSE memBar[w]]
      BY <2>3 DEF memBar, MemView, CellOf
    <3>2. memBar = [w \in Tids |-> IF w = 0 THEN MemView(n) ELSE memBar[w]]
      BY <2>2, <2>4 DEF memBar
    <3> QED BY <3>1, <3>2
  <2>7. pairsBar' = pairsBar
    BY <2>1, <2>3, <2>4 DEF pairsBar
  <2>8. filedBar' = Empty
    <3>1. filedBar' = FileView(n, Empty)
      BY <2>3, <2>4, ZeroTid DEF filedBar, FileView, CellOf
    <3> QED BY <2>2, <3>1
  <2>9. Cells!Merge
    BY <2>5, <2>6, <2>7, <2>8
       DEF Cells!Merge, Cells!Empty, Empty, regBar, memBar, pairsBar, filedBar,
           QView, MemView, FileView
  <2> QED BY <2>9 DEF Cells!Next
<1> QED BY <1>2, <1>3, <1>4 DEF HMerge

-----------------------------------------------------------------------------
(***************************************************************************)
(* The refinement.                                                         *)
(***************************************************************************)
LEMMA InitCells == Init => Cells!Init
<1> SUFFICES ASSUME Init PROVE Cells!Init
  OBVIOUS
<1>1. \A t \in Tids : vm[t] = NewMachine
  BY DEF Init
<1>2. /\ QView(NewMachine) = Empty
      /\ MemView(NewMachine) = [s \in Slots |-> None]
      /\ FileView(NewMachine, Empty) = Empty
      /\ NewMachine.pairs = Budget
  BY DEF QView, MemView, FileView, CellOf, NewMachine, Empty
<1>3. regBar = [t \in Tids |-> Empty]
  BY <1>1, <1>2 DEF regBar
<1>4. memBar = [t \in Tids |-> [s \in Slots |-> None]]
  BY <1>1, <1>2 DEF memBar
<1>5. pairsBar = [t \in Tids |-> Budget]
  BY <1>1, <1>2 DEF pairsBar
<1>6. filedBar = Empty
  BY <1>1, <1>2, ZeroTid DEF filedBar, Init
<1> QED BY <1>3, <1>4, <1>5, <1>6
        DEF Cells!Init, Cells!Empty, Cells!Tids, Empty, Tids, regBar, memBar, pairsBar,
            filedBar, QView, MemView, FileView

LEMMA NextCells == OwnInv /\ [Next]_vars => [Cells!Next]_(Cells!cells)
<1>1. ASSUME UNCHANGED vars PROVE UNCHANGED Cells!cells
  BY <1>1 DEF vars, region, Cells!cells, CellOf
<1> SUFFICES ASSUME OwnInv, Next PROVE Cells!Next
  BY <1>1
<1>2. PICK t \in Tids : Instruction(t) \/ Stop(t)
  BY DEF Next
<1>3. ASSUME NEW a \in QRegs,
             QPrep(t, a) \/ QMeas(t, a) \/ QPreps(t, a) \/ QObserve(t, a)
      PROVE  Cells!Next
  BY <1>3, QPrepStep, RebuildStep, QObserveStep DEF QMeas, QPreps
<1>4. ASSUME NEW a \in QRegs, NEW b \in QRegs,
             \/ QKernel(t, a, b) \/ QPtrace(t, a, b) \/ QMasked(t, a, b)
             \/ QReset(t, a, b) \/ QXch(t, a, b)
      PROVE  Cells!Next
  BY <1>4, QKernelStep, QPtraceStep, QMaskedStep, RebuildStep, QXchStep DEF QReset
<1>5. ASSUME NEW dst \in QRegs, NEW a \in QRegs, NEW b \in QRegs, QTensor(t, dst, a, b)
      PROVE  Cells!Next
  BY <1>5, QTensorStep
<1>6. ASSUME NEW r \in QRegs, NEW s \in Slots, QLoad(t, r, s) \/ QStore(t, r, s)
      PROVE  Cells!Next
  BY <1>6, QLoadStep, QStoreStep
<1>7. CASE HFork(t) \/ HMerge(t)
  BY <1>7, HForkStep, HMergeStep
<1>8. CASE Stop(t)
  BY <1>8, StopStep
<1> QED BY <1>2, <1>3, <1>4, <1>5, <1>6, <1>7, <1>8 DEF Instruction

\* Handles, tables and their clones cannot be noticed by a program: seen through them,
\* every instruction changes the registers and slots it names and no other, refused
\* instructions change nothing or use up what they say, and a region gives thread 0 its
\* registers back with the states they had.
THEOREM RegistersImplementCells == Spec => ImplementsCells
BY InitCells, NextCells, OwnInvHolds, PTL DEF Spec, ImplementsCells, Cells!Spec
=============================================================================
