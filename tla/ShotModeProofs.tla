--------------------------- MODULE ShotModeProofs ---------------------------
(* Proofs about ShotMode for every program, number of registers and number of  *)
(* shots: what replays leave alone, and what they count.                       *)
EXTENDS ShotMode, FiniteSetTheorems, TLAPS

------------------------------------------------------------------------------
(* Types                                                                       *)
Handle == Nat \cup {None}
Counts == [Outcomes -> Nat]
Values == [kind : {"empty", "dist", "int", "float", "hist"}, outs : SUBSET Outcomes, counts : Counts]
Context == [pc : Nat, q : [QRegs -> Handle], h : [HRegs -> Values], r : Nat,
            qf : BOOLEAN, halt : BOOLEAN]
Instruction == [op : {"prep", "gate", "meas", "observe", "jif", "ecall", "halt"},
                q : QRegs, h : HRegs, mode : {"", "dist", "sample", "prob"}, to : Nat]
WellFormed(i) == i \in Instruction /\ (i.op = "observe" => i.mode # "")

Phases == {"main", "flush", "done", "failed", "replay", "replay failed"}

TypeOK ==
    /\ program \in Seq(Instruction) /\ \A k \in DOMAIN program : WellFormed(program[k])
    /\ ctx \in Context /\ snapshot \in Context /\ post \in Context
    /\ states \subseteq Nat /\ IsFiniteSet(states)
    /\ seenMeas \in BOOLEAN /\ adaptive \in BOOLEAN
    /\ crossing \in BOOLEAN /\ diverged \in BOOLEAN
    /\ phase \in Phases /\ cycles \in Nat /\ shot \in Nat
    /\ acc \in [HRegs -> Counts]
    /\ printed \in Seq(Nat)

------------------------------------------------------------------------------
(* A new handle is one that nobody has.                                        *)
LEMMA LeastOne ==
    ASSUME NEW S, S \subseteq Nat, S # {}
    PROVE  Min(S) \in S
<1> DEFINE R == {p \in Nat \X Nat : p[1] < p[2]}
<1>1. IsWellFoundedOn(R, Nat)
  BY NatLessThanWellFounded, Zenon DEF OpToRel
<1>2. PICK x \in S : \A y \in S : ~(<<y, x>> \in R)
  <2> HIDE DEF R
  <2> QED BY <1>1, WFMin
<1>3. \A y \in S : x <= y
  <2>1. \A y \in S : <<y, x>> \in Nat \X Nat /\ <<y, x>>[1] = y /\ <<y, x>>[2] = x
    OBVIOUS
  <2>2. \A y \in S : ~(y < x)
    BY <1>2, <2>1
  <2> QED BY <2>2
<1> QED BY <1>2, <1>3 DEF Min

LEMMA HeldFinite ==
    ASSUME NEW c \in Context
    PROVE  /\ IsFiniteSet(Held(c)) /\ Cardinality(Held(c)) <= Cardinality(QRegs)
           /\ \A h : h \in Held(c) <=> h # None /\ \E r \in QRegs : c.q[r] = h
           /\ Held(c) \subseteq Nat
<1>1. c.q \in [QRegs -> Handle]
  BY DEF Context
<1>2. c.q \in Surjection(QRegs, Range(c.q))
  BY <1>1 DEF Surjection, Range
<1>3. /\ IsFiniteSet(Range(c.q)) /\ Cardinality(Range(c.q)) <= Cardinality(QRegs)
  BY <1>2, FS_Surjection, RegistersAssumption
<1>4. Held(c) \in SUBSET Range(c.q)
  BY DEF Held
<1>5. /\ IsFiniteSet(Held(c)) /\ Cardinality(Held(c)) <= Cardinality(Range(c.q))
  BY <1>3, <1>4, FS_Subset
<1>6. /\ Cardinality(Held(c)) \in Nat /\ Cardinality(Range(c.q)) \in Nat /\ Cardinality(QRegs) \in Nat
  BY <1>3, <1>5, FS_CardinalityType, RegistersAssumption
<1>7. \A h : h \in Held(c) <=> h # None /\ \E r \in QRegs : c.q[r] = h
  BY <1>1 DEF Held, Range
<1>8. Held(c) \subseteq Nat
  BY <1>1, <1>7 DEF Handle
<1> QED BY <1>3, <1>5, <1>6, <1>7, <1>8

LEMMA TwoFinite ==
    ASSUME NEW S, NEW T, IsFiniteSet(S), IsFiniteSet(T)
    PROVE  /\ IsFiniteSet(S \cup T) /\ Cardinality(S \cup T) \in Nat
           /\ Cardinality(S \cup T) <= Cardinality(S) + Cardinality(T)
<1>1. S \cap T \in SUBSET S
  OBVIOUS
<1>2. IsFiniteSet(S \cap T) /\ IsFiniteSet(S \cup T)
  BY <1>1, FS_Subset, FS_Union
<1>3. /\ Cardinality(S) \in Nat /\ Cardinality(T) \in Nat
      /\ Cardinality(S \cap T) \in Nat /\ Cardinality(S \cup T) \in Nat
  BY <1>2, FS_CardinalityType
<1>4. Cardinality(S \cup T) = Cardinality(S) + Cardinality(T) - Cardinality(S \cap T)
  BY FS_Union
<1> QED BY <1>2, <1>3, <1>4

LEMMA NewHandleFresh ==
    ASSUME TypeOK
    PROVE  /\ NewHandle \in Nat /\ NewHandle # None
           /\ NewHandle \notin states
           /\ \A r \in QRegs : /\ ctx.q[r] # NewHandle
                               /\ post.q[r] # NewHandle
                               /\ snapshot.q[r] # NewHandle
<1> DEFINE A == Held(ctx)
           B == Held(post)
           C == Held(snapshot)
           n == Cardinality(QRegs)
           k == Cardinality(states)
           U == states \cup A \cup B \cup C
           S == (0..(4 * n + k)) \ U
<1>1. ctx \in Context /\ post \in Context /\ snapshot \in Context /\ IsFiniteSet(states)
  BY DEF TypeOK
<1>2. n \in Nat /\ k \in Nat
  BY <1>1, FS_CardinalityType, RegistersAssumption
<1>3. /\ IsFiniteSet(A) /\ Cardinality(A) <= n /\ IsFiniteSet(B) /\ Cardinality(B) <= n
      /\ IsFiniteSet(C) /\ Cardinality(C) <= n
  BY <1>1, HeldFinite
<1>4. /\ Cardinality(A) \in Nat /\ Cardinality(B) \in Nat /\ Cardinality(C) \in Nat
  BY <1>3, FS_CardinalityType
<1> HIDE DEF A, B, C, n, k
<1>5. IsFiniteSet(U) /\ Cardinality(U) \in Nat /\ Cardinality(U) <= k + n + n + n
  <2>1. /\ IsFiniteSet(states \cup A) /\ Cardinality(states \cup A) \in Nat
        /\ Cardinality(states \cup A) <= k + n
    BY <1>1, <1>2, <1>3, <1>4, TwoFinite DEF k
  <2>2. /\ IsFiniteSet(states \cup A \cup B) /\ Cardinality(states \cup A \cup B) \in Nat
        /\ Cardinality(states \cup A \cup B) <= k + n + n
    BY <1>2, <1>3, <1>4, <2>1, TwoFinite
  <2> QED BY <1>2, <1>3, <1>4, <2>2, TwoFinite
<1>6. S # {}
  <2> SUFFICES ASSUME S = {} PROVE FALSE
    OBVIOUS
  <2>1. 0..(4 * n + k) \in SUBSET U
    OBVIOUS
  <2>2. Cardinality(0..(4 * n + k)) <= Cardinality(U)
    BY <1>5, <2>1, FS_Subset
  <2>3. Cardinality(0..(4 * n + k)) = 4 * n + k + 1
    BY <1>2, FS_Interval
  <2> HIDE DEF U
  <2> QED BY <1>2, <1>5, <2>2, <2>3
<1>7. S \subseteq Nat
  BY <1>2
<1>8. NewHandle \in S
  <2>1. Min(S) \in S
    BY <1>6, <1>7, LeastOne
  <2> QED BY <2>1 DEF NewHandle, A, B, C, n, k
<1>9. NewHandle \in Nat /\ NewHandle \notin states /\ NewHandle \notin A /\ NewHandle \notin B /\ NewHandle \notin C
  BY <1>7, <1>8
<1>10. NewHandle # None
  BY <1>9 DEF None
<1> QED BY <1>1, <1>9, <1>10, HeldFinite DEF A, B, C

------------------------------------------------------------------------------
(* What an instruction i makes of context c and table s: register r has handle *)
(* h afterwards, and its old handle is gone from the table.                    *)
Puts(c, s, r, h, e) ==
    /\ \A x \in QRegs : e.c.q[x] = IF x = r THEN h ELSE c.q[x]
    /\ \A g \in e.s : g = h \/ (g \in s /\ g # c.q[r])
    /\ \A g \in s : g # c.q[r] => g \in e.s
    /\ h # None => h \in e.s

KindOf(mode) == CASE mode = "dist" -> "dist" [] mode = "sample" -> "int" [] mode = "prob" -> "float"

FillsOp == {"prep", "gate", "meas"}

Becomes(c, s, i, e) ==
    /\ e.c \in Context /\ e.s \subseteq Nat /\ IsFiniteSet(e.s)
    /\ i.op \in FillsOp => /\ Puts(c, s, i.q, NewHandle, e)
                           /\ e.c.qf /\ e.c.h = c.h
    /\ i.op = "observe" => /\ Puts(c, s, i.q, None, e)
                           /\ ~e.c.qf
                           /\ \A k \in HRegs : k # i.h => e.c.h[k] = c.h[k]
                           /\ e.c.h[i.h].kind = KindOf(i.mode)
    /\ i.op \in {"jif", "ecall", "halt"} => e.c.q = c.q /\ e.s = s /\ e.c.h = c.h /\ e.c.qf = c.qf
    /\ i.op \notin {"jif", "halt"} => e.c.pc = c.pc + 1
    /\ i.op = "jif" => e.c.pc \in {i.to, c.pc + 1}
    /\ i.op = "halt" => e.c.pc = c.pc /\ e.c.halt
    /\ i.op # "halt" => e.c.halt = c.halt

LEMMA FiniteChange ==
    ASSUME NEW s, IsFiniteSet(s), NEW o, NEW h
    PROVE  IsFiniteSet(s \ {o}) /\ IsFiniteSet((s \ {o}) \cup {h})
BY FS_RemoveElement, FS_AddElement

LEMMA FilledFields ==
    ASSUME NEW c \in Context, NEW r \in QRegs, NEW s, NewHandle \in Nat, NEW v \in Nat,
           NEW e, e = Filled(c, s, r, v)
    PROVE  /\ e.c \in Context
           /\ \A x \in QRegs : e.c.q[x] = IF x = r THEN NewHandle ELSE c.q[x]
           /\ e.c.pc = c.pc + 1 /\ e.c.h = c.h /\ e.c.qf /\ e.c.halt = c.halt
<1> DEFINE q == [c.q EXCEPT ![r] = NewHandle]
<1>1. q \in [QRegs -> Handle] /\ \A x \in QRegs : q[x] = IF x = r THEN NewHandle ELSE c.q[x]
  BY DEF Context, Handle
<1>2. c.pc + 1 \in Nat
  BY DEF Context
<1>3. e.c = [c EXCEPT !.pc = c.pc + 1, !.q = q, !.r = v, !.qf = TRUE]
  BY DEF Filled
<1> HIDE DEF q
<1>4. e.c \in Context
  BY <1>1, <1>2, <1>3 DEF Context
<1>5. e.c.pc = c.pc + 1 /\ e.c.q = q /\ e.c.h = c.h /\ e.c.qf /\ e.c.halt = c.halt
  BY <1>1, <1>2, <1>3 DEF Context
<1> QED BY <1>1, <1>4, <1>5

LEMMA ObservationFields ==
    ASSUME NEW c \in Context, NEW i, i.q \in QRegs, i.h \in HRegs, NEW s, NEW v \in Values,
           NEW e, e = Observation(c, s, i, v)
    PROVE  /\ e.c \in Context
           /\ \A x \in QRegs : e.c.q[x] = IF x = i.q THEN None ELSE c.q[x]
           /\ \A x \in HRegs : e.c.h[x] = IF x = i.h THEN v ELSE c.h[x]
           /\ e.c.pc = c.pc + 1 /\ ~e.c.qf /\ e.c.halt = c.halt
<1> DEFINE q == [c.q EXCEPT ![i.q] = None]
           h == [c.h EXCEPT ![i.h] = v]
<1>1. /\ q \in [QRegs -> Handle] /\ \A x \in QRegs : q[x] = IF x = i.q THEN None ELSE c.q[x]
      /\ h \in [HRegs -> Values] /\ \A x \in HRegs : h[x] = IF x = i.h THEN v ELSE c.h[x]
  BY DEF Context, Handle
<1>2. c.pc + 1 \in Nat
  BY DEF Context
<1>3. e.c = [c EXCEPT !.pc = c.pc + 1, !.q = q, !.h = h, !.qf = FALSE]
  BY DEF Observation
<1> HIDE DEF q, h
<1>4. e.c \in Context
  BY <1>1, <1>2, <1>3 DEF Context
<1>5. e.c.pc = c.pc + 1 /\ e.c.q = q /\ e.c.h = h /\ ~e.c.qf /\ e.c.halt = c.halt
  BY <1>1, <1>2, <1>3 DEF Context
<1> QED BY <1>1, <1>4, <1>5

(* The instructions that have nothing to do with a register.                   *)
LEMMA PlainFields ==
    ASSUME NEW c \in Context, NEW i, i.to \in Nat, i.op \in {"jif", "ecall", "halt"}, NEW s,
           NEW e \in Executed(c, s, i)
    PROVE  /\ e.c \in Context /\ e.s = s
           /\ e.c.q = c.q /\ e.c.h = c.h /\ e.c.qf = c.qf
           /\ i.op = "jif" => e.c.pc \in {i.to, c.pc + 1}
           /\ i.op = "ecall" => e.c.pc = c.pc + 1
           /\ i.op = "halt" => e.c.pc = c.pc /\ e.c.halt
           /\ i.op # "halt" => e.c.halt = c.halt
<1>1. e.s = s
  BY DEF Executed
<1>2. c.pc + 1 \in Nat
  BY DEF Context
<1>3. CASE i.op = "jif"
  <2>1. PICK p \in {i.to, c.pc + 1} : e.c = [c EXCEPT !.pc = p]
    BY <1>3 DEF Executed, Jumped
  <2>2. e.c \in Context
    BY <1>2, <2>1 DEF Context
  <2>3. e.c.pc = p /\ e.c.q = c.q /\ e.c.h = c.h /\ e.c.qf = c.qf /\ e.c.halt = c.halt
    BY <1>2, <2>1 DEF Context
  <2> QED BY <1>1, <1>3, <2>2, <2>3
<1>4. CASE i.op = "ecall"
  <2>1. e.c = [c EXCEPT !.pc = c.pc + 1]
    BY <1>4 DEF Executed, Next1
  <2>2. e.c \in Context
    BY <1>2, <2>1 DEF Context
  <2>3. e.c.pc = c.pc + 1 /\ e.c.q = c.q /\ e.c.h = c.h /\ e.c.qf = c.qf /\ e.c.halt = c.halt
    BY <1>2, <2>1 DEF Context
  <2> QED BY <1>1, <1>4, <2>2, <2>3
<1>5. CASE i.op = "halt"
  <2>1. e.c = [c EXCEPT !.halt = TRUE]
    BY <1>5 DEF Executed
  <2>2. e.c \in Context
    BY <1>2, <2>1 DEF Context
  <2>3. e.c.pc = c.pc /\ e.c.q = c.q /\ e.c.h = c.h /\ e.c.qf = c.qf /\ e.c.halt
    BY <1>2, <2>1 DEF Context
  <2> QED BY <1>1, <1>5, <2>2, <2>3
<1> QED BY <1>3, <1>4, <1>5

LEMMA ExecutedFills ==
    ASSUME TypeOK, NEW c \in Context, NEW i, WellFormed(i), i.op \in FillsOp,
           NEW s, s \subseteq Nat, IsFiniteSet(s), NEW e \in Executed(c, s, i)
    PROVE  Becomes(c, s, i, e)
<1> DEFINE S == (s \ {c.q[i.q]}) \cup {NewHandle}
<1>1. i.q \in QRegs /\ NewHandle \in Nat
  BY NewHandleFresh DEF WellFormed, Instruction
<1>2. PICK v \in Nat : e = Filled(c, s, i.q, v)
  <2>1. c.r \in Nat /\ Outcomes \subseteq Nat
    BY DEF Context, Outcomes
  <2> QED BY <2>1 DEF Executed, FillsOp
<1>3. e.s = S
  BY <1>2 DEF Filled
<1>4. S \subseteq Nat /\ IsFiniteSet(S)
  BY <1>1, FiniteChange
<1>5. /\ \A g \in S : g = NewHandle \/ (g \in s /\ g # c.q[i.q])
      /\ \A g \in s : g # c.q[i.q] => g \in S
      /\ NewHandle \in S
  OBVIOUS
<1> HIDE DEF S
<1>6. /\ e.c \in Context
      /\ \A x \in QRegs : e.c.q[x] = IF x = i.q THEN NewHandle ELSE c.q[x]
      /\ e.c.pc = c.pc + 1 /\ e.c.h = c.h /\ e.c.qf /\ e.c.halt = c.halt
  BY <1>1, <1>2, FilledFields
<1>7. Puts(c, s, i.q, NewHandle, e)
  BY <1>3, <1>5, <1>6 DEF Puts
<1>8. i.op \notin {"observe", "jif", "ecall", "halt"}
  BY DEF FillsOp
<1> QED BY <1>3, <1>4, <1>6, <1>7, <1>8 DEF Becomes

LEMMA ExecutedObserve ==
    ASSUME TypeOK, NEW c \in Context, NEW i, WellFormed(i), i.op = "observe",
           NEW s, s \subseteq Nat, IsFiniteSet(s), NEW e \in Executed(c, s, i)
    PROVE  Becomes(c, s, i, e)
<1> DEFINE S == s \ {c.q[i.q]}
<1>1. PICK v \in Seen(i.mode) : e = Observation(c, s, i, v)
  BY DEF Executed
<1>2. i.q \in QRegs /\ i.h \in HRegs /\ i.mode \in {"dist", "sample", "prob"}
  BY DEF WellFormed, Instruction
<1>3. v \in Values /\ v.kind = KindOf(i.mode)
  <2>1. NoCounts \in Counts
    BY DEF NoCounts, Counts
  <2>2. CASE i.mode = "dist"
    BY <2>1, <2>2 DEF Seen, Value, Values, KindOf
  <2>3. CASE i.mode = "sample"
    BY <2>1, <2>3 DEF Seen, Value, Values, KindOf
  <2>4. CASE i.mode = "prob"
    BY <2>1, <2>4 DEF Seen, Value, Values, KindOf
  <2> QED BY <1>2, <2>2, <2>3, <2>4
<1>4. e.s = S
  BY <1>1 DEF Observation
<1>5. S \subseteq Nat /\ IsFiniteSet(S)
  BY FiniteChange
<1>6. /\ \A g \in S : g \in s /\ g # c.q[i.q]
      /\ \A g \in s : g # c.q[i.q] => g \in S
  OBVIOUS
<1> HIDE DEF S
<1>7. /\ e.c \in Context
      /\ \A x \in QRegs : e.c.q[x] = IF x = i.q THEN None ELSE c.q[x]
      /\ \A x \in HRegs : e.c.h[x] = IF x = i.h THEN v ELSE c.h[x]
      /\ e.c.pc = c.pc + 1 /\ ~e.c.qf /\ e.c.halt = c.halt
  BY <1>1, <1>2, <1>3, ObservationFields
<1>8. Puts(c, s, i.q, None, e)
  BY <1>4, <1>6, <1>7 DEF Puts
<1>9. e.c.h[i.h].kind = KindOf(i.mode) /\ \A k \in HRegs : k # i.h => e.c.h[k] = c.h[k]
  BY <1>2, <1>3, <1>7
<1> QED BY <1>4, <1>5, <1>7, <1>8, <1>9 DEF Becomes, FillsOp

LEMMA ExecutedBecomes ==
    ASSUME TypeOK, NEW c \in Context, NEW i, WellFormed(i),
           NEW s, s \subseteq Nat, IsFiniteSet(s), NEW e \in Executed(c, s, i)
    PROVE  Becomes(c, s, i, e)
<1>1. i.op \in FillsOp \cup {"observe", "jif", "ecall", "halt"} /\ i.to \in Nat
  BY DEF WellFormed, Instruction, FillsOp
<1>2. CASE i.op \in {"jif", "ecall", "halt"}
  <2>1. /\ e.c \in Context /\ e.s = s
        /\ e.c.q = c.q /\ e.c.h = c.h /\ e.c.qf = c.qf
        /\ i.op \notin {"jif", "halt"} => e.c.pc = c.pc + 1
        /\ i.op = "jif" => e.c.pc \in {i.to, c.pc + 1}
        /\ i.op = "halt" => e.c.pc = c.pc /\ e.c.halt
        /\ i.op # "halt" => e.c.halt = c.halt
    BY <1>1, <1>2, PlainFields
  <2>2. e.s \subseteq Nat /\ IsFiniteSet(e.s)
    BY <2>1
  <2>3. i.op \notin FillsOp /\ i.op # "observe"
    BY <1>2 DEF FillsOp
  <2> QED BY <2>1, <2>2, <2>3 DEF Becomes
<1> QED BY <1>1, <1>2, ExecutedFills, ExecutedObserve

------------------------------------------------------------------------------
(* The inductive invariants                                                    *)

(* The registers of context c have a state each in table s, and no two the    *)
(* same one.                                                                   *)
Sound(c, s) ==
    /\ \A r \in QRegs : c.q[r] # None => c.q[r] \in s
    /\ \A r, x \in QRegs : r # x /\ c.q[r] = c.q[x] => c.q[r] = None
Apart(c, d) == \A r, x \in QRegs : c.q[r] # None => c.q[r] # d.q[x]
Bare(c) == \A r \in QRegs : c.q[r] = None

SurvivalInv ==
    ~crossing =>
        /\ InSection => Bare(snapshot)
        /\ phase = "main" => Sound(ctx, states)
        /\ phase = "replay" => InSection /\ Sound(post, states) /\ Apart(ctx, post)

(* Where a section began, and what the registers of the replays have in        *)
(* common with those of the first run.                                         *)
Sampled(v) == v.kind \in {"dist", "int"}
Hists(c) == \A i \in HRegs : c.h[i].kind = "hist" => Total(c.h[i].counts) = Shots
SectionStart ==
    /\ snapshot.pc \in DOMAIN program /\ program[snapshot.pc].op = "prep"
    /\ ~snapshot.qf /\ ~snapshot.halt
ObservedAt(k, c) ==
    /\ program[k].op = "observe" /\ c.pc = k + 1
    /\ c.h[program[k].h].kind = KindOf(program[k].mode)
    /\ \A i \in HRegs : i # program[k].h => c.h[i] = snapshot.h[i]

SectionInv ==
    /\ InSection => SectionStart
    /\ phase = "main" => ~ctx.halt /\ (InSection => ctx.h = snapshot.h /\ ctx.qf)
    /\ phase = "replay" =>
          /\ InSection /\ ~ctx.halt /\ ~post.halt
          /\ ctx.h = snapshot.h /\ (~ctx.qf => ctx.pc = snapshot.pc)
          /\ \E k \in DOMAIN program : ObservedAt(k, post)

CountInv ==
    /\ phase = "main" /\ ~diverged => Hists(ctx)
    /\ phase = "replay" => shot \in 1..Shots
    /\ phase = "replay" /\ ~diverged =>
          /\ Hists(post)
          /\ \A i \in HRegs : IF Sampled(post.h[i]) THEN Total(acc[i]) = shot ELSE acc[i] = NoCounts

(* The place that the program has reached, whatever the replays do.            *)
Place == IF phase = "replay" THEN post.pc ELSE ctx.pc
Forward == \A p \in DOMAIN program : program[p].op = "jif" => program[p].to > p
Straight == \A p \in DOMAIN program : program[p].op # "jif"
EcallInv ==
    /\ Forward =>
          /\ IsInjective(printed)
          /\ phase \in {"main", "replay"} => \A k \in DOMAIN printed : printed[k] < Place
    /\ Straight /\ phase \in {"main", "replay", "flush", "done"} =>
          Place >= 1 /\ Range(printed) = {p \in Ecalls : p < Place}
    /\ phase \in {"flush", "done"} /\ ~ctx.halt => ~InProgram(ctx)

------------------------------------------------------------------------------
(* What sampling makes of the H registers                                      *)
Resamples(f, h) ==
    \A i \in HRegs : IF Sampled(f[i]) THEN h[i].kind = "hist" /\ Total(h[i].counts) = Shots
                     ELSE h[i] = f[i]

LEMMA ResampledOne ==
    ASSUME NEW v \in Values, NEW w \in Resampled(v)
    PROVE  /\ w \in Values
           /\ IF Sampled(v) THEN w.kind = "hist" /\ Total(w.counts) = Shots ELSE w = v
<1>1. CASE Sampled(v)
  <2>1. PICK c \in CountsOf(v.outs) : w = Hist(c)
    BY <1>1 DEF Resampled, Sampled
  <2>2. c \in [Outcomes -> 0..Shots] /\ Total(c) = Shots
    BY DEF CountsOf
  <2>3. c \in Counts
    BY <2>2 DEF Counts
  <2>4. w.kind = "hist" /\ w.counts = c
    BY <2>1 DEF Hist, Value
  <2>5. w \in Values
    BY <2>1, <2>3 DEF Hist, Value, Values
  <2> QED BY <1>1, <2>2, <2>4, <2>5
<1>2. CASE ~Sampled(v)
  BY <1>2 DEF Resampled, Sampled
<1> QED BY <1>1, <1>2

LEMMA ResampledAll ==
    ASSUME NEW f \in [HRegs -> Values], NEW h \in AllResampled(f)
    PROVE  h \in [HRegs -> Values] /\ Resamples(f, h)
<1>1. \A i \in HRegs : f[i] \in Values /\ h[i] \in Resampled(f[i])
  BY DEF AllResampled
<1>2. \E S : h \in [HRegs -> S]
  BY DEF AllResampled
<1>3. \A i \in HRegs : h[i] \in Values
  BY <1>1, ResampledOne
<1> QED BY <1>1, <1>2, <1>3, ResampledOne DEF Resamples

Counted(a, f, b) ==
    \A i \in HRegs : IF Sampled(f[i]) THEN Total(b[i]) = Total(a[i]) + 1 ELSE b[i] = a[i]

LEMMA OneMore ==
    ASSUME NEW c \in Counts, NEW o \in Outcomes
    PROVE  /\ [c EXCEPT ![o] = @ + 1] \in Counts
           /\ Total([c EXCEPT ![o] = @ + 1]) = Total(c) + 1
BY DEF Counts, Outcomes, Total

LEMMA CollectedAll ==
    ASSUME NEW a \in [HRegs -> Counts], NEW f \in [HRegs -> Values], NEW b \in Collected(a, f)
    PROVE  b \in [HRegs -> Counts] /\ Counted(a, f, b)
<1>1. PICK pick \in [HRegs -> Outcomes \cup {None}] :
         /\ \A i \in HRegs : pick[i] \in Samples(f[i])
         /\ b = [i \in HRegs |-> IF pick[i] = None THEN a[i] ELSE [a[i] EXCEPT ![pick[i]] = @ + 1]]
  BY DEF Collected
<1>2. \A i \in HRegs : b[i] = IF pick[i] = None THEN a[i] ELSE [a[i] EXCEPT ![pick[i]] = @ + 1]
  BY <1>1
<1>3. ASSUME NEW i \in HRegs
      PROVE  /\ b[i] \in Counts
             /\ IF Sampled(f[i]) THEN Total(b[i]) = Total(a[i]) + 1 ELSE b[i] = a[i]
  <2>1. a[i] \in Counts /\ f[i] \in Values /\ f[i].outs \subseteq Outcomes
    BY DEF Values
  <2>2. CASE Sampled(f[i])
    <3>1. pick[i] \in Outcomes /\ pick[i] # None
      BY <1>1, <2>1, <2>2 DEF Samples, Sampled, Outcomes, None
    <3>2. b[i] = [a[i] EXCEPT ![pick[i]] = @ + 1]
      BY <1>2, <3>1
    <3>3. /\ [a[i] EXCEPT ![pick[i]] = @ + 1] \in Counts
          /\ Total([a[i] EXCEPT ![pick[i]] = @ + 1]) = Total(a[i]) + 1
      BY <2>1, <3>1, OneMore
    <3>4. b[i] \in Counts /\ Total(b[i]) = Total(a[i]) + 1
      BY <3>2, <3>3
    <3> QED BY <2>2, <3>4
  <2>3. CASE ~Sampled(f[i])
    <3>1. pick[i] = None
      BY <1>1, <2>3 DEF Samples, Sampled
    <3> QED BY <1>2, <2>1, <2>3, <3>1
  <2> QED BY <2>2, <2>3
<1>4. b \in [HRegs -> Counts]
  <2> DEFINE F(i) == IF pick[i] = None THEN a[i] ELSE [a[i] EXCEPT ![pick[i]] = @ + 1]
  <2>1. b = [i \in HRegs |-> F(i)]
    BY <1>1
  <2>2. \A i \in HRegs : F(i) \in Counts
    BY <1>2, <1>3
  <2> HIDE DEF F
  <2> QED BY <2>1, <2>2
<1> QED BY <1>3, <1>4 DEF Counted

------------------------------------------------------------------------------
(* The cases of a step of the main loop                                        *)
Stays(e) ==
    /\ ~(InSection /\ Observed(ctx, e.c) /\ ~e.c.halt)
    /\ ctx' = e.c /\ phase' = (IF e.c.halt THEN "flush" ELSE "main")
    /\ Bookkept
    /\ UNCHANGED replay
Replays(e) ==
    /\ InSection /\ Observed(ctx, e.c) /\ ~e.c.halt
    /\ post' = e.c /\ ctx' = snapshot /\ shot' = 1 /\ phase' = "replay"
    /\ acc' \in [HRegs -> Counts] /\ Counted(NoAcc, e.c.h, acc')
    /\ UNCHANGED <<section, crossing>>
Redraws(e) ==
    /\ InSection /\ Observed(ctx, e.c) /\ ~e.c.halt
    /\ ctx' \in Context
    /\ ctx'.pc = e.c.pc /\ ctx'.q = e.c.q /\ ctx'.qf = e.c.qf /\ ctx'.halt = e.c.halt
    /\ Resamples(e.c.h, ctx'.h)
    /\ NoSection
    /\ phase' = "main"
    /\ UNCHANGED <<replay, crossing>>
MainStep(e) ==
    /\ phase = "main" /\ InProgram(ctx) /\ WellFormed(Instr)
    /\ Becomes(ctx, states, Instr, e)
    /\ states' = e.s
    /\ Stays(e) \/ Replays(e) \/ Redraws(e)
    /\ printed' = Printing(Instr) /\ cycles' = cycles + 1
    /\ UNCHANGED <<program, diverged>>

LEMMA InstrWellFormed ==
    ASSUME TypeOK, InProgram(ctx)
    PROVE  WellFormed(Instr)
BY DEF TypeOK, InProgram, Instr

LEMMA NoAccCounts == NoAcc \in [HRegs -> Counts] /\ \A i \in HRegs : NoAcc[i] = NoCounts
  BY DEF NoAcc, NoCounts, Counts

LEMMA StepMainCases ==
    ASSUME TypeOK, StepMain
    PROVE  \E e : MainStep(e)
<1>1. PICK e \in Executed(ctx, states, Instr) :
         LET leaves == InSection /\ Observed(ctx, e.c) /\ ~e.c.halt IN
          /\ states' = e.s
          /\ \/ /\ ~leaves
                /\ ctx' = e.c /\ phase' = IF e.c.halt THEN "flush" ELSE "main"
                /\ Bookkept
                /\ UNCHANGED replay
             \/ /\ leaves /\ adaptive
                /\ post' = e.c /\ ctx' = snapshot /\ shot' = 1 /\ phase' = "replay"
                /\ acc' \in Collected(NoAcc, e.c.h)
                /\ UNCHANGED <<section, crossing>>
             \/ /\ leaves /\ ~adaptive
                /\ \E h \in AllResampled(e.c.h) : ctx' = [e.c EXCEPT !.h = h]
                /\ NoSection
                /\ phase' = "main"
                /\ UNCHANGED <<replay, crossing>>
  BY Zenon DEF StepMain
<1>2. phase = "main" /\ InProgram(ctx) /\ WellFormed(Instr)
  BY InstrWellFormed DEF StepMain
<1>3. Becomes(ctx, states, Instr, e)
  <2>1. ctx \in Context /\ states \subseteq Nat /\ IsFiniteSet(states)
    BY DEF TypeOK
  <2> QED BY <1>2, <2>1, ExecutedBecomes
<1>4. e.c \in Context /\ e.c.h \in [HRegs -> Values]
  BY <1>3 DEF Becomes, Context
<1>5. Stays(e) \/ Replays(e) \/ Redraws(e)
  <2>1. acc' \in Collected(NoAcc, e.c.h) => acc' \in [HRegs -> Counts] /\ Counted(NoAcc, e.c.h, acc')
    BY <1>4, NoAccCounts, CollectedAll
  <2>2. \A h \in AllResampled(e.c.h) : ctx' = [e.c EXCEPT !.h = h] =>
           /\ ctx' \in Context /\ ctx'.pc = e.c.pc /\ ctx'.q = e.c.q /\ ctx'.qf = e.c.qf
           /\ ctx'.halt = e.c.halt /\ Resamples(e.c.h, ctx'.h)
    <3> SUFFICES ASSUME NEW h \in AllResampled(e.c.h), ctx' = [e.c EXCEPT !.h = h]
                 PROVE  /\ ctx' \in Context /\ ctx'.pc = e.c.pc /\ ctx'.q = e.c.q /\ ctx'.qf = e.c.qf
                        /\ ctx'.halt = e.c.halt /\ Resamples(e.c.h, ctx'.h)
      OBVIOUS
    <3> DEFINE d == e.c
    <3>1. d \in Context /\ h \in AllResampled(d.h) /\ ctx' = [d EXCEPT !.h = h]
      BY <1>4
    <3> HIDE DEF d
    <3>2. h \in [HRegs -> Values] /\ Resamples(d.h, h)
      BY <3>1, ResampledAll DEF Context
    <3>3. ctx' \in Context
      BY <3>1, <3>2 DEF Context
    <3>4. ctx'.pc = d.pc /\ ctx'.q = d.q /\ ctx'.qf = d.qf /\ ctx'.halt = d.halt /\ ctx'.h = h
      BY <3>1, <3>2 DEF Context
    <3> QED BY <3>2, <3>3, <3>4 DEF d
  <2> QED BY <1>1, <2>1, <2>2, Zenon DEF Stays, Replays, Redraws
<1>6. printed' = Printing(Instr) /\ cycles' = cycles + 1 /\ UNCHANGED <<program, diverged>>
  BY DEF StepMain
<1> QED BY <1>1, <1>2, <1>3, <1>5, <1>6 DEF MainStep

(* The cases of a step of a replay.                                            *)
Finished(e) ==
    /\ acc' \in [HRegs -> Counts] /\ Counted(acc, e.c.h, acc')
    /\ shot' = shot + 1
    /\ ctx' = snapshot
    /\ diverged' = (diverged \/ e.c.pc # post.pc \/ ~Observed(ctx, e.c))
GoesOn(e) ==
    /\ ~Finishes(ctx, e.c)
    /\ ctx' = e.c
    /\ UNCHANGED <<acc, shot, diverged>>
ReplayStep(e) ==
    /\ phase = "replay" /\ shot < Shots /\ InProgram(ctx) /\ WellFormed(Instr)
    /\ Becomes(ctx, states, Instr, e)
    /\ states' = e.s
    /\ Finished(e) \/ GoesOn(e)
    /\ UNCHANGED <<program, section, cycles, phase, post, crossing, printed>>

LEMMA StepReplayCases ==
    ASSUME TypeOK, StepReplay
    PROVE  \E e : ReplayStep(e)
<1>1. PICK e \in IF Instr.op = "ecall" THEN {[c |-> Next1(ctx), s |-> states]}
                  ELSE Executed(ctx, states, Instr) :
          /\ states' = e.s
          /\ IF Finishes(ctx, e.c)
             THEN /\ acc' \in Collected(acc, e.c.h)
                  /\ shot' = shot + 1
                  /\ ctx' = Rewound
                  /\ diverged' = (diverged \/ e.c.pc # post.pc \/ ~Observed(ctx, e.c))
             ELSE /\ ctx' = e.c
                  /\ UNCHANGED <<acc, shot, diverged>>
  BY Zenon DEF StepReplay
<1>2. e \in Executed(ctx, states, Instr)
  BY <1>1 DEF Executed
<1>3. phase = "replay" /\ shot < Shots /\ InProgram(ctx) /\ WellFormed(Instr)
  <2>1. phase = "replay" /\ ~(shot >= Shots) /\ InProgram(ctx)
    BY DEF StepReplay, Replaying, Enough
  <2>2. shot \in Nat /\ Shots \in Nat
    BY ShotsAssumption DEF TypeOK
  <2> QED BY <2>1, <2>2, InstrWellFormed
<1>4. Becomes(ctx, states, Instr, e)
  <2>1. ctx \in Context /\ states \subseteq Nat /\ IsFiniteSet(states)
    BY DEF TypeOK
  <2> QED BY <1>2, <1>3, <2>1, ExecutedBecomes
<1>5. e.c.h \in [HRegs -> Values]
  BY <1>4 DEF Becomes, Context
<1>6. Finished(e) \/ GoesOn(e)
  <2>1. acc' \in Collected(acc, e.c.h) => acc' \in [HRegs -> Counts] /\ Counted(acc, e.c.h, acc')
    BY <1>5, CollectedAll DEF TypeOK
  <2> QED BY <1>1, <2>1, Zenon DEF Finished, GoesOn, Rewound
<1>7. UNCHANGED <<program, section, cycles, phase, post, crossing, printed>>
  BY DEF StepReplay, PrintingNothing
<1> QED BY <1>1, <1>3, <1>4, <1>6, <1>7 DEF ReplayStep

(* What the end of the replays makes of the context.                           *)
Restored ==
    /\ phase = "replay" /\ shot >= Shots
    /\ ctx' \in Context
    /\ ctx'.pc = post.pc /\ ctx'.q = post.q /\ ctx'.qf = post.qf /\ ctx'.halt = post.halt
    /\ \A i \in HRegs : IF acc[i] = NoCounts THEN ctx'.h[i] = post.h[i]
                        ELSE ctx'.h[i].kind = "hist" /\ ctx'.h[i].counts = acc[i]
    /\ phase' = "main" /\ shot' = 0 /\ acc' = NoAcc /\ post' = NoContext
    /\ NoSection
    /\ UNCHANGED <<program, states, cycles, printed, history>>

LEMMA RestoreFields ==
    ASSUME TypeOK, Restore
    PROVE  Restored
<1> DEFINE F(i) == IF acc[i] = NoCounts THEN post.h[i] ELSE Hist(acc[i])
           h == [i \in HRegs |-> F(i)]
<1>1. post \in Context /\ \A i \in HRegs : post.h[i] \in Values /\ acc[i] \in Counts
  BY DEF TypeOK, Context
<1>2. \A i \in HRegs : Hist(acc[i]) \in Values /\ Hist(acc[i]).kind = "hist" /\ Hist(acc[i]).counts = acc[i]
  BY <1>1 DEF Hist, Value, Values
<1>3. h \in [HRegs -> Values]
  <2>1. \A i \in HRegs : F(i) \in Values
    BY <1>1, <1>2
  <2> HIDE DEF F
  <2> QED BY <2>1
<1>4. \A i \in HRegs : IF acc[i] = NoCounts THEN h[i] = post.h[i]
                      ELSE h[i].kind = "hist" /\ h[i].counts = acc[i]
  BY <1>2
<1>5. ctx' = [post EXCEPT !.h = h]
  BY DEF Restore
<1> HIDE DEF h
<1>6. ctx' \in Context
  BY <1>1, <1>3, <1>5 DEF Context
<1>7. ctx'.pc = post.pc /\ ctx'.q = post.q /\ ctx'.qf = post.qf /\ ctx'.halt = post.halt /\ ctx'.h = h
  BY <1>1, <1>3, <1>5 DEF Context
<1> QED BY <1>4, <1>6, <1>7 DEF Restored, Restore, Enough

(* The ways a run ends.                                                        *)
Ended ==
    /\ ctx' \in Context
    /\ ctx'.pc = ctx.pc /\ ctx'.q = ctx.q /\ ctx'.qf = ctx.qf
    /\ \/ phase = "main" /\ phase' = "flush" /\ ctx'.halt = (ctx.halt \/ InProgram(ctx))
       \/ phase = "flush" /\ phase' = "done" /\ ctx'.halt = ctx.halt
       \/ phase' \in {"failed", "replay failed"} /\ ctx' = ctx
    /\ UNCHANGED <<program, states, section, cycles, replay, printed, history>>

LEMMA EndedFields ==
    ASSUME TypeOK, LimitMain \/ Flush \/ Error
    PROVE  Ended
<1>1. ctx \in Context
  BY DEF TypeOK
<1>2. CASE LimitMain
  <2> DEFINE f == (ctx.halt \/ InProgram(ctx))
  <2>1. f \in BOOLEAN
    BY <1>1 DEF Context, InProgram
  <2>2. ctx' = [ctx EXCEPT !.halt = f]
    BY <1>2 DEF LimitMain
  <2> HIDE DEF f
  <2>3. ctx' \in Context
    BY <1>1, <2>1, <2>2 DEF Context
  <2>4. ctx'.pc = ctx.pc /\ ctx'.q = ctx.q /\ ctx'.qf = ctx.qf /\ ctx'.halt = f
    BY <1>1, <2>1, <2>2 DEF Context
  <2>5. /\ phase = "main" /\ phase' = "flush"
        /\ UNCHANGED <<program, states, section, cycles, replay, printed, history>>
    BY <1>2 DEF LimitMain
  <2> QED BY <2>3, <2>4, <2>5 DEF Ended, f
<1>3. CASE Flush
  <2>1. PICK h \in AllResampled(ctx.h) : ctx' = [ctx EXCEPT !.h = h]
    BY <1>3 DEF Flush
  <2>2. h \in [HRegs -> Values]
    BY <1>1, ResampledAll DEF Context
  <2>3. ctx' \in Context
    BY <1>1, <2>1, <2>2 DEF Context
  <2>4. ctx'.pc = ctx.pc /\ ctx'.q = ctx.q /\ ctx'.qf = ctx.qf /\ ctx'.halt = ctx.halt
    BY <1>1, <2>1, <2>2 DEF Context
  <2>5. /\ phase = "flush" /\ phase' = "done"
        /\ UNCHANGED <<program, states, section, cycles, replay, printed, history>>
    BY <1>3 DEF Flush
  <2> QED BY <2>3, <2>4, <2>5 DEF Ended
<1>4. CASE Error
  <2>1. /\ phase' \in {"failed", "replay failed"} /\ ctx' = ctx
        /\ UNCHANGED <<program, states, section, cycles, replay, printed, history>>
    BY <1>4 DEF Error
  <2> QED BY <1>1, <2>1 DEF Ended
<1> QED BY <1>2, <1>3, <1>4

(* A step, in the form that the invariants are proved from.                    *)
LEMMA NextCases ==
    ASSUME TypeOK, Next
    PROVE  (\E e : MainStep(e)) \/ (\E e : ReplayStep(e)) \/ Restored \/ Ended
BY StepMainCases, StepReplayCases, RestoreFields, EndedFields DEF Next

------------------------------------------------------------------------------
(* Types                                                                       *)
LEMMA NoContextFields ==
    /\ NoContext \in Context
    /\ NoContext.pc = 0 /\ \A r \in QRegs : NoContext.q[r] = None
    /\ \A i \in HRegs : NoContext.h[i].kind = "empty"
    /\ ~NoContext.qf /\ ~NoContext.halt
<1>1. NoCounts \in Counts
  BY DEF NoCounts, Counts
<1>2. Empty \in Values /\ Empty.kind = "empty"
  BY <1>1 DEF Empty, Value, Values
<1>3. None \in Handle
  BY DEF Handle
<1> QED BY <1>2, <1>3 DEF NoContext, Context

LEMMA StartFields ==
    ASSUME Init
    PROVE  /\ ctx \in Context /\ ctx.pc = 1 /\ ~ctx.qf /\ ~ctx.halt
           /\ \A r \in QRegs : ctx.q[r] = None
           /\ \A i \in HRegs : ctx.h[i].kind = "empty"
<1> DEFINE c == NoContext
<1>1. c \in Context /\ 1 \in Nat
  BY NoContextFields
<1>2. ctx = [c EXCEPT !.pc = 1]
  BY DEF Init
<1> HIDE DEF c
<1>3. ctx \in Context
  BY <1>1, <1>2 DEF Context
<1>4. ctx.pc = 1 /\ ctx.q = c.q /\ ctx.h = c.h /\ ctx.qf = c.qf /\ ctx.halt = c.halt
  BY <1>1, <1>2 DEF Context
<1> QED BY <1>3, <1>4, NoContextFields DEF c

LEMMA InitTypes ==
    ASSUME Init
    PROVE  TypeOK
<1>1. program \in Seq(Instruction) /\ \A k \in DOMAIN program : WellFormed(program[k])
  <2>1. program \in Programs
    BY DEF Init
  <2>2. program \in Seq(Instruction) /\ \A k \in DOMAIN program : program[k].op = "observe" => program[k].mode # ""
    BY <2>1, ProgramsAssumption DEF Instruction
  <2>3. \A k \in DOMAIN program : program[k] \in Instruction
    <3>1. program \in Seq(Instruction)
      BY <2>2
    <3>2. DOMAIN program = 1..Len(program)
      BY <3>1
    <3> QED BY <3>1, <3>2
  <2> QED BY <2>2, <2>3 DEF WellFormed
<1>2. ctx \in Context /\ snapshot \in Context /\ post \in Context
  BY StartFields, NoContextFields DEF Init
<1>3. states = {} /\ IsFiniteSet({})
  BY FS_EmptySet DEF Init
<1>4. acc \in [HRegs -> Counts]
  BY NoAccCounts DEF Init
<1>5. states \subseteq Nat /\ IsFiniteSet(states)
  BY <1>3
<1>6. /\ seenMeas \in BOOLEAN /\ adaptive \in BOOLEAN /\ crossing \in BOOLEAN /\ diverged \in BOOLEAN
      /\ phase \in Phases /\ cycles \in Nat /\ shot \in Nat
  BY DEF Init, Phases
<1>7. printed \in Seq(Nat)
  BY DEF Init
<1> QED BY <1>1, <1>2, <1>4, <1>5, <1>6, <1>7 DEF TypeOK

LEMMA BookkeptTypes ==
    ASSUME TypeOK, Bookkept
    PROVE  snapshot' \in Context /\ seenMeas' \in BOOLEAN /\ adaptive' \in BOOLEAN /\ crossing' \in BOOLEAN
<1>1. ctx \in Context /\ snapshot \in Context
  BY DEF TypeOK
<1>2. snapshot' \in Context
  BY <1>1 DEF Bookkept
<1>3. Begins \in BOOLEAN /\ (InSection /\ Instr.op = "meas") \in BOOLEAN
  BY DEF Begins
<1>4. seenMeas' \in BOOLEAN /\ adaptive' \in BOOLEAN /\ crossing' \in BOOLEAN
  BY DEF Bookkept, TypeOK
<1> QED BY <1>2, <1>4

LEMMA NextTypes ==
    ASSUME TypeOK, [Next]_vars
    PROVE  TypeOK'
<1>1. ASSUME NEW e, MainStep(e)
      PROVE  TypeOK'
  <2>1. e.c \in Context /\ e.s \subseteq Nat /\ IsFiniteSet(e.s)
    BY <1>1 DEF MainStep, Becomes
  <2>2. program' = program /\ diverged' = diverged /\ cycles' \in Nat
    BY <1>1 DEF MainStep, TypeOK
  <2>3. states' \subseteq Nat /\ IsFiniteSet(states')
    BY <1>1, <2>1 DEF MainStep
  <2>4. printed' \in Seq(Nat)
    <3>1. ctx.pc \in Nat /\ printed \in Seq(Nat)
      BY DEF TypeOK, Context
    <3>2. printed' = Printing(Instr)
      BY <1>1 DEF MainStep
    <3> QED BY <3>1, <3>2 DEF Printing
  <2>5. /\ ctx' \in Context /\ snapshot' \in Context /\ post' \in Context
        /\ seenMeas' \in BOOLEAN /\ adaptive' \in BOOLEAN /\ crossing' \in BOOLEAN
        /\ phase' \in Phases /\ shot' \in Nat /\ acc' \in [HRegs -> Counts]
    <3>1. CASE Stays(e)
      BY <2>1, <3>1, BookkeptTypes DEF Stays, replay, TypeOK, Phases
    <3>2. CASE Replays(e)
      BY <2>1, <3>2 DEF Replays, section, TypeOK, Phases
    <3>3. CASE Redraws(e)
      BY <2>1, <3>3, NoContextFields DEF Redraws, NoSection, replay, TypeOK, Phases
    <3> QED BY <1>1, <3>1, <3>2, <3>3 DEF MainStep
  <2> QED BY <2>2, <2>3, <2>4, <2>5 DEF TypeOK
<1>2. ASSUME NEW e, ReplayStep(e)
      PROVE  TypeOK'
  <2>1. e.c \in Context /\ e.s \subseteq Nat /\ IsFiniteSet(e.s)
    BY <1>2 DEF ReplayStep, Becomes
  <2>2. UNCHANGED <<program, section, cycles, phase, post, crossing, printed>>
    BY <1>2 DEF ReplayStep
  <2>3. states' \subseteq Nat /\ IsFiniteSet(states')
    BY <1>2, <2>1 DEF ReplayStep
  <2>4. ctx' \in Context /\ shot' \in Nat /\ acc' \in [HRegs -> Counts] /\ diverged' \in BOOLEAN
    <3>1. CASE Finished(e)
      <4>1. (diverged \/ e.c.pc # post.pc \/ ~Observed(ctx, e.c)) \in BOOLEAN
        BY DEF Observed, TypeOK
      <4>2. ctx' \in Context /\ shot' \in Nat /\ acc' \in [HRegs -> Counts]
        BY <3>1 DEF Finished, TypeOK
      <4>3. diverged' \in BOOLEAN
        BY <3>1, <4>1 DEF Finished
      <4> QED BY <4>2, <4>3
    <3>2. CASE GoesOn(e)
      BY <2>1, <3>2 DEF GoesOn, TypeOK
    <3> QED BY <1>2, <3>1, <3>2 DEF ReplayStep
  <2> QED BY <2>2, <2>3, <2>4 DEF TypeOK, section
<1>3. CASE Restored
  BY <1>3, NoContextFields, NoAccCounts DEF Restored, NoSection, TypeOK, Phases, history
<1>4. CASE Ended
  BY <1>4 DEF Ended, TypeOK, Phases, history, section, replay
<1>5. CASE UNCHANGED vars
  BY <1>5 DEF TypeOK, vars, section, replay, history
<1> QED BY <1>1, <1>2, <1>3, <1>4, <1>5, NextCases

(* The types, at every step: instructions, contexts and tables of every size.  *)
THEOREM TypesOK == Spec => []TypeOK
<1>1. Init => TypeOK
  BY InitTypes
<1>2. TypeOK /\ [Next]_vars => TypeOK'
  BY NextTypes
<1> QED BY <1>1, <1>2, PTL DEF Spec

------------------------------------------------------------------------------
(* What replays leave of the registers                                         *)
LEMMA SoundStep ==
    ASSUME TypeOK, WellFormed(Instr), NEW e, Becomes(ctx, states, Instr, e), Sound(ctx, states)
    PROVE  Sound(e.c, e.s)
<1>1. \A r \in QRegs : ctx.q[r] # NewHandle
  BY NewHandleFresh
<1>2. Instr.q \in QRegs /\ Instr.op \in FillsOp \cup {"observe", "jif", "ecall", "halt"}
  BY DEF WellFormed, Instruction, FillsOp
<1>3. ASSUME NEW h, Puts(ctx, states, Instr.q, h, e), h \in {None, NewHandle}
      PROVE  Sound(e.c, e.s)
  BY <1>1, <1>2, <1>3 DEF Puts, Sound
<1>4. CASE Instr.op \in FillsOp
  <2>1. Puts(ctx, states, Instr.q, NewHandle, e)
    BY <1>4 DEF Becomes
  <2> QED BY <1>3, <2>1
<1>5. CASE Instr.op = "observe"
  <2>1. Puts(ctx, states, Instr.q, None, e)
    BY <1>5 DEF Becomes
  <2> QED BY <1>3, <2>1
<1>6. CASE Instr.op \in {"jif", "ecall", "halt"}
  <2>1. e.c.q = ctx.q /\ e.s = states
    BY <1>6 DEF Becomes
  <2> QED BY <2>1 DEF Sound
<1> QED BY <1>2, <1>4, <1>5, <1>6

(* A replay's step touches no state of the registers put aside.                *)
LEMMA ApartStep ==
    ASSUME TypeOK, WellFormed(Instr), NEW e, Becomes(ctx, states, Instr, e),
           Sound(post, states), Apart(ctx, post)
    PROVE  Sound(post, e.s) /\ Apart(e.c, post)
<1>1. NewHandle # None /\ \A r \in QRegs : post.q[r] # NewHandle
  BY NewHandleFresh
<1>2. Instr.q \in QRegs /\ Instr.op \in FillsOp \cup {"observe", "jif", "ecall", "halt"}
  BY DEF WellFormed, Instruction, FillsOp
<1>3. None \notin states
  BY DEF TypeOK, None
<1>4. ASSUME NEW h, Puts(ctx, states, Instr.q, h, e), h \in {None, NewHandle}
      PROVE  Sound(post, e.s) /\ Apart(e.c, post)
  <2>1. \A g \in states : g # ctx.q[Instr.q] => g \in e.s
    BY <1>4 DEF Puts
  <2>2. \A r \in QRegs : post.q[r] # None => post.q[r] \in e.s
    BY <1>2, <1>3, <2>1 DEF Sound, Apart
  <2>3. Apart(e.c, post)
    BY <1>1, <1>2, <1>4 DEF Puts, Apart
  <2> QED BY <2>2, <2>3 DEF Sound
<1>5. CASE Instr.op \in FillsOp
  <2>1. Puts(ctx, states, Instr.q, NewHandle, e)
    BY <1>5 DEF Becomes
  <2> QED BY <1>4, <2>1
<1>6. CASE Instr.op = "observe"
  <2>1. Puts(ctx, states, Instr.q, None, e)
    BY <1>6 DEF Becomes
  <2> QED BY <1>4, <2>1
<1>7. CASE Instr.op \in {"jif", "ecall", "halt"}
  <2>1. e.c.q = ctx.q /\ e.s = states
    BY <1>7 DEF Becomes
  <2> QED BY <2>1 DEF Sound, Apart
<1> QED BY <1>2, <1>5, <1>6, <1>7

LEMMA BareHeld ==
    ASSUME NEW c \in Context, Held(c) = {}
    PROVE  Bare(c)
BY HeldFinite DEF Bare

LEMMA BookkeptSurvival ==
    ASSUME TypeOK, SurvivalInv, Bookkept, ~crossing'
    PROVE  ~crossing /\ (InSection' => Bare(snapshot'))
<1>1. ctx \in Context
  BY DEF TypeOK
<1>2. ~crossing /\ (Begins => Held(ctx) = {})
  BY DEF Bookkept, TypeOK
<1>3. CASE Begins
  BY <1>1, <1>2, <1>3, BareHeld DEF Bookkept
<1>4. CASE ~Begins
  <2>1. snapshot' = snapshot
    BY <1>4 DEF Bookkept
  <2> QED BY <1>2, <2>1 DEF SurvivalInv, InSection
<1> QED BY <1>2, <1>3, <1>4

LEMMA SurvivalStep ==
    ASSUME TypeOK, SurvivalInv, [Next]_vars
    PROVE  SurvivalInv'
<1> SUFFICES ASSUME ~crossing'
             PROVE  /\ InSection' => Bare(snapshot')
                    /\ phase' = "main" => Sound(ctx', states')
                    /\ phase' = "replay" => InSection' /\ Sound(post', states') /\ Apart(ctx', post')
  BY DEF SurvivalInv, Bare, Sound, Apart
<1>1. ASSUME NEW e, MainStep(e)
      PROVE  /\ InSection' => Bare(snapshot')
             /\ phase' = "main" => Sound(ctx', states')
             /\ phase' = "replay" => InSection' /\ Sound(post', states') /\ Apart(ctx', post')
  <2>1. ~crossing => Sound(ctx, states)
    BY <1>1 DEF MainStep, SurvivalInv
  <2>2. ~crossing => Sound(e.c, states')
    <3>1. ~crossing => Sound(e.c, e.s)
      BY <1>1, <2>1, SoundStep DEF MainStep
    <3> QED BY <1>1, <3>1 DEF MainStep
  <2>3. CASE Stays(e)
    <3>1. ~crossing /\ (InSection' => Bare(snapshot'))
      BY <2>3, BookkeptSurvival DEF Stays
    <3>2. ctx' = e.c /\ phase' # "replay"
      BY <2>3 DEF Stays
    <3> QED BY <2>2, <3>1, <3>2
  <2>4. CASE Replays(e)
    <3>1. ~crossing /\ InSection /\ snapshot' = snapshot /\ post' = e.c /\ ctx' = snapshot /\ phase' = "replay"
      BY <2>4 DEF Replays, section
    <3>2. Bare(snapshot) /\ InSection'
      BY <3>1 DEF SurvivalInv, InSection
    <3>3. Apart(snapshot, e.c)
      BY <3>2 DEF Bare, Apart
    <3> QED BY <2>2, <3>1, <3>2, <3>3
  <2>5. CASE Redraws(e)
    <3>1. ~crossing /\ ~InSection' /\ phase' = "main" /\ ctx'.q = e.c.q
      BY <2>5 DEF Redraws, NoSection, InSection
    <3>2. Sound(ctx', states')
      BY <2>2, <3>1 DEF Sound
    <3> QED BY <3>1, <3>2
  <2> QED BY <1>1, <2>3, <2>4, <2>5 DEF MainStep
<1>2. ASSUME NEW e, ReplayStep(e)
      PROVE  /\ InSection' => Bare(snapshot')
             /\ phase' = "main" => Sound(ctx', states')
             /\ phase' = "replay" => InSection' /\ Sound(post', states') /\ Apart(ctx', post')
  <2>1. /\ ~crossing /\ phase = "replay" /\ phase' = "replay" /\ post' = post /\ snapshot' = snapshot
    BY <1>2 DEF ReplayStep, section
  <2>2. InSection /\ Bare(snapshot) /\ Sound(post, states) /\ Apart(ctx, post)
    BY <2>1 DEF SurvivalInv
  <2>3. Sound(post, states') /\ Apart(e.c, post)
    <3>1. Sound(post, e.s) /\ Apart(e.c, post)
      BY <1>2, <2>2, ApartStep DEF ReplayStep
    <3> QED BY <1>2, <3>1 DEF ReplayStep
  <2>4. ctx' \in {snapshot, e.c}
    BY <1>2 DEF ReplayStep, Finished, GoesOn
  <2>5. Apart(ctx', post)
    BY <2>2, <2>3, <2>4 DEF Bare, Apart
  <2>6. InSection'
    BY <2>1, <2>2 DEF InSection
  <2> QED BY <2>1, <2>2, <2>3, <2>5, <2>6
<1>3. CASE Restored
  <2>1. ~crossing /\ phase = "replay" /\ phase' = "main" /\ ctx'.q = post.q /\ states' = states /\ ~InSection'
    BY <1>3 DEF Restored, NoSection, InSection, history
  <2>2. Sound(post, states)
    BY <2>1 DEF SurvivalInv
  <2>3. Sound(ctx', states')
    BY <2>1, <2>2 DEF Sound
  <2> QED BY <2>1, <2>3
<1>4. CASE Ended
  <2>1. ~crossing /\ phase' \notin {"main", "replay"} /\ snapshot' = snapshot
    BY <1>4 DEF Ended, history, section
  <2> QED BY <2>1 DEF SurvivalInv, InSection
<1>5. CASE UNCHANGED vars
  BY <1>5 DEF SurvivalInv, vars, section, replay, history, InSection
<1> QED BY <1>1, <1>2, <1>3, <1>4, <1>5, NextCases

(* Replays take nothing from the registers the program goes on with: however   *)
(* often a section is replayed, each register's state is in the table when the *)
(* main loop runs, as long as no section began with a register in use.         *)
THEOREM ReplaysSpareRegisters == Spec => []RegistersSurvive
<1>1. Init => SurvivalInv
  <2> SUFFICES ASSUME Init PROVE SurvivalInv
    OBVIOUS
  <2>1. Sound(ctx, states)
    BY StartFields DEF Sound
  <2>2. phase = "main" /\ ~InSection
    BY DEF Init, InSection
  <2> QED BY <2>1, <2>2 DEF SurvivalInv
<1>2. TypeOK /\ SurvivalInv /\ [Next]_vars => SurvivalInv'
  BY SurvivalStep
<1>3. TypeOK /\ SurvivalInv => RegistersSurvive
  <2> SUFFICES ASSUME TypeOK, SurvivalInv, ~crossing, phase = "main" PROVE Held(ctx) \subseteq states
    BY DEF RegistersSurvive
  <2>1. ctx \in Context /\ Sound(ctx, states)
    BY DEF TypeOK, SurvivalInv
  <2> QED BY <2>1, HeldFinite DEF Sound
<1> QED BY <1>1, <1>2, <1>3, TypesOK, PTL DEF Spec

------------------------------------------------------------------------------
(* Where sections begin and end                                                *)
Kinds == FillsOp \cup {"observe", "jif", "ecall", "halt"}

LEMMA ObserveOp ==
    ASSUME WellFormed(Instr), NEW e, Becomes(ctx, states, Instr, e), Observed(ctx, e.c)
    PROVE  Instr.op = "observe"
<1>1. Instr.op \in Kinds
  BY DEF WellFormed, Instruction, FillsOp, Kinds
<1>2. ctx.qf /\ ~e.c.qf
  BY DEF Observed
<1> QED BY <1>1, <1>2 DEF Becomes, Kinds

LEMMA OtherOp ==
    ASSUME WellFormed(Instr), NEW e, Becomes(ctx, states, Instr, e), Instr.op # "observe"
    PROVE  e.c.h = ctx.h /\ (~e.c.qf => ~ctx.qf /\ Instr.op # "prep")
<1>1. Instr.op \in Kinds
  BY DEF WellFormed, Instruction, FillsOp, Kinds
<1> QED BY <1>1 DEF Becomes, Kinds, FillsOp

LEMMA ObserveSets ==
    ASSUME NEW e, Becomes(ctx, states, Instr, e), Instr.op = "observe", ctx.pc \in Nat, WellFormed(Instr)
    PROVE  /\ ~e.c.qf /\ e.c.pc = ctx.pc + 1 /\ Instr.h \in HRegs
           /\ e.c.h[Instr.h].kind = KindOf(Instr.mode)
           /\ \A i \in HRegs : i # Instr.h => e.c.h[i] = ctx.h[i]
BY DEF Becomes, WellFormed, Instruction

LEMMA SectionStep ==
    ASSUME TypeOK, SectionInv, [Next]_vars
    PROVE  SectionInv'
<1>1. ASSUME NEW e, MainStep(e)
      PROVE  SectionInv'
  <2>1. /\ phase = "main" /\ InProgram(ctx) /\ WellFormed(Instr) /\ Becomes(ctx, states, Instr, e)
        /\ program' = program
    BY <1>1 DEF MainStep
  <2>2. ~ctx.halt /\ (InSection => ctx.h = snapshot.h /\ ctx.qf)
    BY <2>1 DEF SectionInv
  <2>3. CASE Stays(e)
    <3>1. ctx' = e.c /\ phase' # "replay" /\ (phase' = "main" => ~e.c.halt)
      BY <2>3 DEF Stays
    <3>2. CASE Begins
      <4>1. snapshot' = ctx /\ Instr.op = "prep" /\ ~ctx.qf /\ ctx.pc \in DOMAIN program
        BY <2>1, <2>3, <3>2 DEF Stays, Bookkept, Begins, Entry, InProgram
      <4>2. SectionStart'
        BY <2>1, <2>2, <4>1 DEF SectionStart, Instr
      <4>3. e.c.h = ctx.h /\ e.c.qf
        BY <2>1, <4>1 DEF Becomes, FillsOp
      <4> QED BY <3>1, <4>1, <4>2, <4>3 DEF SectionInv
    <3>3. CASE ~Begins
      <4>1. snapshot' = snapshot
        BY <2>3, <3>3 DEF Stays, Bookkept
      <4>2. InSection /\ ~e.c.halt => ~Observed(ctx, e.c)
        BY <2>3 DEF Stays
      <4>3. InSection /\ ~e.c.halt => e.c.h = ctx.h /\ e.c.qf
        <5>1. InSection /\ ~e.c.halt => e.c.qf
          BY <2>2, <4>2 DEF Observed
        <5>2. Instr.op = "observe" => ~e.c.qf
          BY <2>1 DEF Becomes
        <5> QED BY <2>1, <5>1, <5>2, OtherOp
      <4>4. InSection' = InSection /\ (InSection => SectionStart')
        BY <2>1, <4>1 DEF InSection, SectionInv, SectionStart
      <4> QED BY <2>2, <3>1, <4>1, <4>3, <4>4 DEF SectionInv, InSection
    <3> QED BY <3>2, <3>3
  <2>4. CASE Replays(e)
    <3>1. /\ InSection /\ Observed(ctx, e.c) /\ ~e.c.halt
          /\ post' = e.c /\ ctx' = snapshot /\ phase' = "replay" /\ snapshot' = snapshot
      BY <2>4 DEF Replays, section
    <3>2. SectionStart
      BY <3>1 DEF SectionInv
    <3>3. SectionStart' /\ InSection'
      BY <2>1, <3>1, <3>2 DEF SectionStart, InSection
    <3>4. Instr.op = "observe"
      BY <2>1, <3>1, ObserveOp
    <3>5. ctx.pc \in DOMAIN program /\ ctx.pc \in Nat
      BY <2>1 DEF InProgram, TypeOK, Context
    <3>6. ObservedAt(ctx.pc, e.c)
      BY <2>1, <2>2, <3>1, <3>4, <3>5, ObserveSets DEF ObservedAt, Instr
    <3>7. \E k \in DOMAIN program' : ObservedAt(k, post)'
      BY <2>1, <3>1, <3>5, <3>6 DEF ObservedAt
    <3>8. ~ctx'.halt /\ ~post'.halt /\ ctx'.h = snapshot'.h /\ ctx'.pc = snapshot'.pc
      BY <3>1, <3>2 DEF SectionStart
    <3> QED BY <3>1, <3>3, <3>7, <3>8 DEF SectionInv
  <2>5. CASE Redraws(e)
    <3>1. ~e.c.halt /\ ctx'.halt = e.c.halt /\ ~InSection' /\ phase' = "main"
      BY <2>5 DEF Redraws, NoSection, InSection
    <3> QED BY <3>1 DEF SectionInv
  <2> QED BY <1>1, <2>3, <2>4, <2>5 DEF MainStep
<1>2. ASSUME NEW e, ReplayStep(e)
      PROVE  SectionInv'
  <2>1. /\ phase = "replay" /\ InProgram(ctx) /\ WellFormed(Instr) /\ Becomes(ctx, states, Instr, e)
        /\ program' = program /\ phase' = phase /\ snapshot' = snapshot /\ post' = post
    BY <1>2 DEF ReplayStep, section
  <2>2. /\ InSection /\ ~ctx.halt /\ ~post.halt /\ ctx.h = snapshot.h /\ (~ctx.qf => ctx.pc = snapshot.pc)
        /\ SectionStart /\ \E k \in DOMAIN program : ObservedAt(k, post)
    BY <2>1 DEF SectionInv
  <2>3. InSection' /\ SectionStart' /\ \E k \in DOMAIN program' : ObservedAt(k, post)'
    BY <2>1, <2>2 DEF InSection, SectionStart, ObservedAt
  <2>4. ~ctx'.halt /\ ctx'.h = snapshot.h /\ (~ctx'.qf => ctx'.pc = snapshot.pc)
    <3>1. CASE Finished(e)
      BY <2>2, <3>1 DEF Finished, SectionStart
    <3>2. CASE GoesOn(e)
      <4>1. ctx' = e.c /\ ~e.c.halt /\ ~Observed(ctx, e.c)
        BY <3>2 DEF GoesOn, Finishes
      <4>2. ~ctx.qf => Instr.op = "prep"
        BY <2>2 DEF SectionStart, Instr
      <4>3. Instr.op # "observe"
        <5>1. Instr.op = "observe" => ~e.c.qf
          BY <2>1 DEF Becomes
        <5> QED BY <4>1, <4>2, <5>1 DEF Observed
      <4>4. e.c.h = ctx.h /\ e.c.qf
        BY <2>1, <4>2, <4>3, OtherOp
      <4> QED BY <2>2, <4>1, <4>4
    <3> QED BY <1>2, <3>1, <3>2 DEF ReplayStep
  <2> QED BY <2>1, <2>2, <2>3, <2>4 DEF SectionInv
<1>3. CASE Restored
  <2>1. phase = "replay" /\ phase' = "main" /\ ctx'.halt = post.halt /\ ~InSection'
    BY <1>3 DEF Restored, NoSection, InSection
  <2> QED BY <2>1 DEF SectionInv
<1>4. CASE Ended
  <2>1. phase' \notin {"main", "replay"} /\ snapshot' = snapshot /\ program' = program
    BY <1>4 DEF Ended, section
  <2>2. InSection' = InSection /\ (SectionStart => SectionStart')
    BY <2>1 DEF InSection, SectionStart
  <2> QED BY <2>1, <2>2 DEF SectionInv
<1>5. CASE UNCHANGED vars
  BY <1>5 DEF SectionInv, SectionStart, ObservedAt, vars, section, replay, history, InSection
<1> QED BY <1>1, <1>2, <1>3, <1>4, <1>5, NextCases

LEMMA SectionInvariant == Spec => []SectionInv
<1>1. Init => SectionInv
  BY StartFields DEF Init, SectionInv, InSection
<1>2. TypeOK /\ SectionInv /\ [Next]_vars => SectionInv'
  BY SectionStep
<1> QED BY <1>1, <1>2, TypesOK, PTL DEF Spec

------------------------------------------------------------------------------
(* What is counted                                                             *)
LEMMA HistsStep ==
    ASSUME WellFormed(Instr), NEW e, Becomes(ctx, states, Instr, e), ctx.pc \in Nat, Hists(ctx)
    PROVE  Hists(e.c)
<1>1. CASE Instr.op = "observe"
  <2>1. Instr.mode \in {"dist", "sample", "prob"}
    BY <1>1 DEF WellFormed, Instruction
  <2>2. KindOf(Instr.mode) # "hist"
    BY <2>1 DEF KindOf
  <2> QED BY <1>1, <2>2, ObserveSets DEF Hists
<1>2. CASE Instr.op # "observe"
  BY <1>2, OtherOp DEF Hists
<1> QED BY <1>1, <1>2

LEMMA NoCountsTotal == Total(NoCounts) = 0
  BY DEF Total, NoCounts, Outcomes

(* The same registers are sampled at the end of each replay.                   *)
LEMMA SameSampled ==
    ASSUME TypeOK, SectionInv, phase = "replay", WellFormed(Instr),
           NEW e, Becomes(ctx, states, Instr, e), Observed(ctx, e.c), e.c.pc = post.pc
    PROVE  \A i \in HRegs : Sampled(e.c.h[i]) <=> Sampled(post.h[i])
<1>1. PICK k \in DOMAIN program : ObservedAt(k, post)
  BY DEF SectionInv
<1>2. ctx.pc \in Nat /\ k \in Nat
  BY DEF TypeOK, Context
<1>3. Instr.op = "observe"
  BY ObserveOp
<1>4. k = ctx.pc /\ program[k] = Instr
  <2>1. post.pc = k + 1 /\ e.c.pc = ctx.pc + 1
    BY <1>1, <1>2, <1>3, ObserveSets DEF ObservedAt
  <2>2. k = ctx.pc
    BY <1>2, <2>1
  <2> QED BY <2>2 DEF Instr
<1>5. ctx.h = snapshot.h
  BY DEF SectionInv
<1>6. ASSUME NEW i \in HRegs
      PROVE  Sampled(e.c.h[i]) <=> Sampled(post.h[i])
  <2>1. CASE i = Instr.h
    BY <1>1, <1>2, <1>3, <1>4, <2>1, ObserveSets DEF ObservedAt, Sampled
  <2>2. CASE i # Instr.h
    BY <1>1, <1>2, <1>3, <1>4, <1>5, <2>2, ObserveSets DEF ObservedAt, Sampled
  <2> QED BY <2>1, <2>2
<1> QED BY <1>6

LEMMA CountStep ==
    ASSUME TypeOK, SectionInv, CountInv, [Next]_vars
    PROVE  CountInv'
<1>1. Shots \in Nat /\ Shots >= 1 /\ shot \in Nat /\ ctx.pc \in Nat
  BY ShotsAssumption DEF TypeOK, Context
<1>2. ASSUME NEW e, MainStep(e)
      PROVE  CountInv'
  <2>1. phase = "main" /\ WellFormed(Instr) /\ Becomes(ctx, states, Instr, e) /\ diverged' = diverged
    BY <1>2 DEF MainStep
  <2>2. ~diverged => Hists(e.c)
    BY <1>1, <2>1, HistsStep DEF CountInv
  <2>3. CASE Stays(e)
    <3>1. ctx' = e.c /\ phase' # "replay"
      BY <2>3 DEF Stays
    <3> QED BY <2>1, <2>2, <3>1 DEF CountInv, Hists
  <2>4. CASE Replays(e)
    <3>1. post' = e.c /\ shot' = 1 /\ phase' = "replay" /\ Counted(NoAcc, e.c.h, acc')
      BY <2>4 DEF Replays
    <3>2. \A i \in HRegs : IF Sampled(e.c.h[i]) THEN Total(acc'[i]) = 1 ELSE acc'[i] = NoCounts
      BY <3>1, NoAccCounts, NoCountsTotal DEF Counted
    <3>3. 1 \in 1..Shots
      BY <1>1
    <3> QED BY <2>1, <2>2, <3>1, <3>2, <3>3 DEF CountInv, Hists, Sampled, Total
  <2>5. CASE Redraws(e)
    <3>1. phase' = "main" /\ Resamples(e.c.h, ctx'.h)
      BY <2>5 DEF Redraws
    <3>2. ~diverged => \A i \in HRegs : ctx'.h[i].kind = "hist" => Total(ctx'.h[i].counts) = Shots
      BY <2>2, <3>1 DEF Resamples, Hists
    <3> QED BY <2>1, <3>1, <3>2 DEF CountInv, Hists, Total
  <2> QED BY <1>2, <2>3, <2>4, <2>5 DEF MainStep
<1>3. ASSUME NEW e, ReplayStep(e)
      PROVE  CountInv'
  <2>1. /\ phase = "replay" /\ phase' = "replay" /\ shot < Shots /\ WellFormed(Instr)
        /\ Becomes(ctx, states, Instr, e) /\ post' = post
    BY <1>3 DEF ReplayStep
  <2>2. CASE Finished(e)
    <3>1. shot' = shot + 1 /\ shot' \in 1..Shots
      BY <1>1, <2>1, <2>2 DEF Finished
    <3>2. SUFFICES ASSUME ~diverged'
                   PROVE  \A i \in HRegs : IF Sampled(post.h[i]) THEN Total(acc'[i]) = shot'
                                          ELSE acc'[i] = NoCounts
      BY <2>1, <2>2, <3>1 DEF CountInv, Hists, Sampled, Total, Finished
    <3>3. ~diverged /\ e.c.pc = post.pc /\ Observed(ctx, e.c) /\ Counted(acc, e.c.h, acc')
      BY <2>2, <3>2 DEF Finished
    <3>4. \A i \in HRegs : Sampled(e.c.h[i]) <=> Sampled(post.h[i])
      BY <2>1, <3>3, SameSampled
    <3>5. \A i \in HRegs : IF Sampled(post.h[i]) THEN Total(acc[i]) = shot ELSE acc[i] = NoCounts
      BY <2>1, <3>3 DEF CountInv
    <3> QED BY <3>1, <3>3, <3>4, <3>5 DEF Counted
  <2>3. CASE GoesOn(e)
    BY <2>1, <2>3 DEF GoesOn, CountInv, Hists, Sampled, Total
  <2> QED BY <1>3, <2>2, <2>3 DEF ReplayStep
<1>4. CASE Restored
  <2>1. /\ phase = "replay" /\ phase' = "main" /\ shot >= Shots /\ diverged' = diverged
        /\ \A i \in HRegs : IF acc[i] = NoCounts THEN ctx'.h[i] = post.h[i]
                            ELSE ctx'.h[i].kind = "hist" /\ ctx'.h[i].counts = acc[i]
    BY <1>4 DEF Restored, history
  <2>2. shot = Shots
    BY <1>1, <2>1 DEF CountInv
  <2>3. ~diverged => \A i \in HRegs : ctx'.h[i].kind = "hist" => Total(ctx'.h[i].counts) = Shots
    <3> SUFFICES ASSUME ~diverged, NEW i \in HRegs, ctx'.h[i].kind = "hist"
                 PROVE  Total(ctx'.h[i].counts) = Shots
      OBVIOUS
    <3>1. Hists(post) /\ IF Sampled(post.h[i]) THEN Total(acc[i]) = shot ELSE acc[i] = NoCounts
      BY <2>1 DEF CountInv
    <3>2. CASE acc[i] = NoCounts
      BY <2>1, <3>1, <3>2 DEF Hists
    <3>3. CASE acc[i] # NoCounts
      BY <2>1, <2>2, <3>1, <3>3
    <3> QED BY <3>2, <3>3
  <2> QED BY <2>1, <2>3 DEF CountInv, Hists, Total
<1>5. CASE Ended
  <2>1. phase' \notin {"main", "replay"}
    BY <1>5 DEF Ended
  <2> QED BY <2>1 DEF CountInv
<1>6. CASE UNCHANGED vars
  BY <1>6 DEF CountInv, Hists, Sampled, vars, replay, history
<1> QED BY <1>2, <1>3, <1>4, <1>5, <1>6, NextCases

(* Every histogram the main loop sees counts each of the shots once, for every *)
(* number of shots and registers, unless a replay left the path of the first   *)
(* run.                                                                        *)
THEOREM ShotsCountedOnce == Spec => []EveryShotCounted
<1>1. Init => CountInv
  BY StartFields DEF Init, CountInv, Hists
<1>2. TypeOK /\ SectionInv /\ CountInv /\ [Next]_vars => CountInv'
  BY CountStep
<1>3. CountInv => EveryShotCounted
  BY DEF CountInv, EveryShotCounted, Regular, Hists
<1> QED BY <1>1, <1>2, <1>3, TypesOK, SectionInvariant, PTL DEF Spec

------------------------------------------------------------------------------
(* ECALLs                                                                      *)
LEMMA RangeAppend ==
    ASSUME NEW s \in Seq(Nat), NEW x \in Nat
    PROVE  /\ \A p : p \in Range(Append(s, x)) <=> p \in Range(s) \/ p = x
           /\ (\A k \in DOMAIN s : s[k] < x) /\ IsInjective(s) => IsInjective(Append(s, x))
           /\ \A k \in DOMAIN Append(s, x) : Append(s, x)[k] = x \/ \E j \in DOMAIN s : Append(s, x)[k] = s[j]
<1> DEFINE t == Append(s, x)
           n == Len(s)
<1>1. /\ n \in Nat /\ DOMAIN s = 1..n /\ DOMAIN t = 1..(n + 1)
      /\ \A k \in 1..n : t[k] = s[k] /\ s[k] \in Nat
      /\ t[n + 1] = x
  OBVIOUS
<1> HIDE DEF t, n
<1>2. \A k \in DOMAIN t : k \in DOMAIN s \/ k = n + 1
  BY <1>1
<1>3. \A k \in DOMAIN s : k \in DOMAIN t
  BY <1>1
<1>4. \A p : p \in Range(t) <=> p \in Range(s) \/ p = x
  <2>1. n + 1 \in DOMAIN t
    BY <1>1
  <2> QED BY <1>1, <1>2, <1>3, <2>1 DEF Range
<1>5. (\A k \in DOMAIN s : s[k] < x) /\ IsInjective(s) => IsInjective(t)
  BY <1>1 DEF IsInjective
<1>6. \A k \in DOMAIN t : t[k] = x \/ \E j \in DOMAIN s : t[k] = s[j]
  BY <1>1, <1>2
<1> QED BY <1>4, <1>5, <1>6 DEF t

Orderly(out, place) ==
    /\ IsInjective(out)
    /\ \A k \in DOMAIN out : out[k] < place
Complete(out, place) == place >= 1 /\ \A p : p \in Range(out) <=> p \in Ecalls /\ p < place

(* One step of the main loop moves the place past the ECALL it makes.          *)
LEMMA PlaceStep ==
    ASSUME TypeOK, InProgram(ctx), WellFormed(Instr), NEW e, Becomes(ctx, states, Instr, e)
    PROVE  /\ Forward /\ Orderly(printed, ctx.pc) => Orderly(Printing(Instr), e.c.pc)
           /\ Straight /\ Complete(printed, ctx.pc) => Complete(Printing(Instr), e.c.pc)
<1>1. /\ ctx.pc \in Nat /\ e.c.pc \in Nat /\ printed \in Seq(Nat) /\ Instr.to \in Nat
      /\ ctx.pc \in DOMAIN program
      /\ \A p \in DOMAIN program : p \in Nat
  <2>1. ctx.pc \in Nat /\ printed \in Seq(Nat)
    BY DEF TypeOK, Context
  <2>2. e.c.pc \in Nat
    BY DEF Becomes, Context
  <2>3. Instr.to \in Nat
    BY DEF WellFormed, Instruction
  <2>4. ctx.pc \in DOMAIN program
    BY DEF InProgram
  <2>5. \A p \in DOMAIN program : p \in Nat
    BY DEF TypeOK
  <2> QED BY <2>1, <2>2, <2>3, <2>4, <2>5
<1>2. /\ Instr.op \notin {"jif", "halt"} => e.c.pc = ctx.pc + 1
      /\ Instr.op = "halt" => e.c.pc = ctx.pc
  BY DEF Becomes
<1>3. Forward => e.c.pc >= ctx.pc /\ (Instr.op # "halt" => e.c.pc > ctx.pc)
  <2>1. Forward /\ Instr.op = "jif" => Instr.to > ctx.pc
    BY <1>1 DEF Forward, Instr
  <2>2. Instr.op = "jif" => e.c.pc \in {Instr.to, ctx.pc + 1}
    BY DEF Becomes
  <2> QED BY <1>1, <1>2, <2>1, <2>2
<1>4. Straight => e.c.pc = IF Instr.op = "halt" THEN ctx.pc ELSE ctx.pc + 1
  BY <1>1, <1>2 DEF Straight, Instr
<1>5. \A k \in DOMAIN printed : printed[k] \in Nat
  BY <1>1
<1>6. ASSUME Forward, Orderly(printed, ctx.pc)
      PROVE  Orderly(Printing(Instr), e.c.pc)
  <2>1. \A k \in DOMAIN printed : printed[k] < e.c.pc
    BY <1>1, <1>3, <1>5, <1>6 DEF Orderly
  <2>2. CASE Instr.op = "ecall"
    <3> DEFINE t == Append(printed, ctx.pc)
    <3>1. IsInjective(t)
      BY <1>1, <1>6, RangeAppend DEF Orderly
    <3>2. \A k \in DOMAIN t : t[k] = ctx.pc \/ \E j \in DOMAIN printed : t[k] = printed[j]
      BY <1>1, RangeAppend
    <3>3. Printing(Instr) = t
      BY <2>2 DEF Printing
    <3> HIDE DEF t
    <3>4. \A k \in DOMAIN t : t[k] < e.c.pc
      BY <1>1, <1>3, <1>6, <2>1, <2>2, <3>2
    <3> QED BY <3>1, <3>3, <3>4 DEF Orderly
  <2>3. CASE Instr.op # "ecall"
    BY <1>6, <2>1, <2>3 DEF Printing, Orderly
  <2> QED BY <2>2, <2>3
<1>7. ASSUME Straight, Complete(printed, ctx.pc)
      PROVE  Complete(Printing(Instr), e.c.pc)
  <2>1. e.c.pc >= 1 /\ \A p : p \in Ecalls => p \in Nat
    <3>1. ctx.pc >= 1
      BY <1>7 DEF Complete
    <3>2. e.c.pc >= 1
      BY <1>1, <1>4, <1>7, <3>1
    <3>3. \A p : p \in Ecalls => p \in Nat
      BY <1>1 DEF Ecalls
    <3> QED BY <3>2, <3>3
  <2>2. ctx.pc \in Ecalls <=> Instr.op = "ecall"
    BY <1>1 DEF Ecalls, Instr
  <2>3. \A p \in Nat : p < e.c.pc <=> p < ctx.pc \/ (p = ctx.pc /\ Instr.op # "halt")
    BY <1>1, <1>4, <1>7
  <2>4. CASE Instr.op = "ecall"
    <3> DEFINE t == Append(printed, ctx.pc)
    <3>1. \A p : p \in Range(t) <=> p \in Range(printed) \/ p = ctx.pc
      BY <1>1, RangeAppend
    <3>2. Printing(Instr) = t
      BY <2>4 DEF Printing
    <3> HIDE DEF t
    <3> QED BY <1>7, <2>1, <2>2, <2>3, <2>4, <3>1, <3>2 DEF Complete
  <2>5. CASE Instr.op # "ecall"
    <3>1. Printing(Instr) = printed
      BY <2>5 DEF Printing
    <3> QED BY <1>7, <2>1, <2>2, <2>3, <2>5, <3>1 DEF Complete
  <2> QED BY <2>4, <2>5
<1> QED BY <1>6, <1>7

LEMMA EcallStep ==
    ASSUME TypeOK, EcallInv, [Next]_vars
    PROVE  EcallInv'
<1>1. ASSUME NEW e, MainStep(e)
      PROVE  EcallInv'
  <2>1. /\ phase = "main" /\ InProgram(ctx) /\ WellFormed(Instr) /\ Becomes(ctx, states, Instr, e)
        /\ program' = program /\ printed' = Printing(Instr)
    BY <1>1 DEF MainStep
  <2>2. phase' \in {"main", "flush", "replay"} /\ Place' = e.c.pc /\ (phase' = "flush" => ctx'.halt)
    <3>1. CASE Stays(e)
      BY <3>1 DEF Stays, Place
    <3>2. CASE Replays(e)
      BY <3>2 DEF Replays, Place
    <3>3. CASE Redraws(e)
      BY <3>3 DEF Redraws, Place
    <3> QED BY <1>1, <3>1, <3>2, <3>3 DEF MainStep
  <2>3. /\ Forward => Orderly(printed, ctx.pc)
        /\ Straight => Complete(printed, ctx.pc)
    BY <2>1 DEF EcallInv, Orderly, Complete, Place
  <2>4. /\ Forward => Orderly(printed', Place')
        /\ Straight => Complete(printed', Place')
    BY <2>1, <2>2, <2>3, PlaceStep
  <2>5. Forward' = Forward /\ Straight' = Straight /\ Ecalls' = Ecalls
    BY <2>1 DEF Forward, Straight, Ecalls
  <2>6. Straight => Range(printed') = {p \in Ecalls : p < Place'}
    BY <2>4 DEF Complete
  <2>7. Forward' => IsInjective(printed)' /\ \A k \in DOMAIN printed' : printed'[k] < Place'
    BY <2>4, <2>5 DEF Orderly
  <2>8. Straight' => Place' >= 1 /\ Range(printed)' = {p \in Ecalls : p < Place}'
    BY <2>4, <2>5, <2>6 DEF Complete
  <2> QED BY <2>2, <2>7, <2>8 DEF EcallInv
<1>2. ASSUME program' = program, printed' = printed,
             phase' \in {"main", "replay", "flush", "done"} =>
                phase \in {"main", "replay", "flush", "done"} /\ Place' = Place,
             phase' \in {"main", "replay"} => phase \in {"main", "replay"},
             phase' \in {"flush", "done"} /\ ~ctx'.halt => ~InProgram(ctx)'
      PROVE  EcallInv'
  <2>1. Forward' = Forward /\ Straight' = Straight /\ Ecalls' = Ecalls
    BY <1>2 DEF Forward, Straight, Ecalls
  <2>2. Forward' => IsInjective(printed)'
                   /\ (phase' \in {"main", "replay"} => \A k \in DOMAIN printed' : printed'[k] < Place')
    BY <1>2, <2>1 DEF EcallInv
  <2>3. Straight' /\ phase' \in {"main", "replay", "flush", "done"} =>
           Place' >= 1 /\ Range(printed)' = {p \in Ecalls : p < Place}'
    BY <1>2, <2>1 DEF EcallInv
  <2> QED BY <1>2, <2>2, <2>3 DEF EcallInv
<1>3. ASSUME NEW e, ReplayStep(e)
      PROVE  EcallInv'
  <2>1. phase = "replay" /\ phase' = "replay" /\ Place' = Place /\ program' = program /\ printed' = printed
    BY <1>3 DEF ReplayStep, Place
  <2> QED BY <1>2, <2>1
<1>4. CASE Restored
  <2>1. phase = "replay" /\ phase' = "main" /\ Place' = Place /\ program' = program /\ printed' = printed
    BY <1>4 DEF Restored, Place
  <2> QED BY <1>2, <2>1
<1>5. CASE Ended
  <2>1. /\ program' = program /\ printed' = printed /\ ctx'.pc = ctx.pc
        /\ \/ phase = "main" /\ phase' = "flush" /\ ctx'.halt = (ctx.halt \/ InProgram(ctx))
           \/ phase = "flush" /\ phase' = "done" /\ ctx'.halt = ctx.halt
           \/ phase' \in {"failed", "replay failed"}
    BY <1>5 DEF Ended
  <2>2. CASE phase = "main" /\ phase' = "flush" /\ ctx'.halt = (ctx.halt \/ InProgram(ctx))
    <3>1. Place' = Place /\ (~ctx'.halt => ~InProgram(ctx)')
      BY <2>1, <2>2 DEF Place, InProgram
    <3> QED BY <1>2, <2>1, <2>2, <3>1
  <2>3. CASE phase = "flush" /\ phase' = "done" /\ ctx'.halt = ctx.halt
    <3>1. Place' = Place /\ (~ctx'.halt => ~InProgram(ctx)')
      BY <2>1, <2>3 DEF Place, InProgram, EcallInv
    <3> QED BY <1>2, <2>1, <2>3, <3>1
  <2>4. CASE phase' \in {"failed", "replay failed"}
    BY <1>2, <2>1, <2>4
  <2> QED BY <2>1, <2>2, <2>3, <2>4
<1>6. CASE UNCHANGED vars
  <2>1. program' = program /\ printed' = printed /\ phase' = phase /\ ctx' = ctx /\ post' = post
    BY <1>6 DEF vars, replay
  <2> QED BY <2>1 DEF EcallInv, Forward, Straight, Ecalls, Place, InProgram
<1> QED BY <1>1, <1>3, <1>4, <1>5, <1>6, NextCases

(* No ECALL of a program that does not jump back is made twice, and each ECALL *)
(* of a straight program that ran to its end is made, for every program and    *)
(* however many shots are replayed.                                            *)
THEOREM EcallsMadeOnce == Spec => []EcallsOnce
<1>1. Init => EcallInv
  <2> SUFFICES ASSUME Init PROVE EcallInv
    OBVIOUS
  <2>1. printed = <<>> /\ phase = "main" /\ ctx.pc = 1
    BY StartFields DEF Init
  <2>2. DOMAIN printed = {} /\ Place = 1
    BY <2>1 DEF Place
  <2>3. Range(printed) = {} /\ IsInjective(printed)
    BY <2>2 DEF Range, IsInjective
  <2>4. \A p \in Ecalls : p \in Nat /\ p >= 1
    BY InitTypes DEF Ecalls, TypeOK
  <2>5. {p \in Ecalls : p < Place} = {}
    BY <2>2, <2>4
  <2> QED BY <2>1, <2>2, <2>3, <2>5 DEF EcallInv
<1>2. TypeOK /\ EcallInv /\ [Next]_vars => EcallInv'
  BY EcallStep
<1>3. TypeOK /\ EcallInv => EcallsOnce
  <2> SUFFICES ASSUME TypeOK, EcallInv PROVE EcallsOnce
    OBVIOUS
  <2>1. ASSUME phase = "done", ~ctx.halt, Straight
        PROVE  Range(printed) = Ecalls
    <3>1. /\ ctx.pc >= 1 /\ Range(printed) = {p \in Ecalls : p < ctx.pc} /\ ~InProgram(ctx)
      BY <2>1 DEF EcallInv, Place
    <3>2. ctx.pc \in Nat /\ program \in Seq(Instruction)
      BY DEF TypeOK, Context
    <3>3. \A p \in DOMAIN program : p < ctx.pc
      BY <3>1, <3>2 DEF InProgram
    <3> QED BY <3>1, <3>3 DEF Ecalls
  <2> QED BY <2>1 DEF EcallsOnce, EcallInv, Forward, Straight
<1> QED BY <1>1, <1>2, <1>3, TypesOK, PTL DEF Spec
=============================================================================
