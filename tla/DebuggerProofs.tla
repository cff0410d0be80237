--------------------------- MODULE DebuggerProofs ---------------------------
(* Proofs about Debugger for every program file, every command line and every  *)
(* bound: what the loops of the commands keep, whatever stops them.            *)
EXTENDS Debugger, SequenceTheorems, TLAPS

------------------------------------------------------------------------------
(* Types                                                                       *)
Ops == {"set", "load", "store", "jif", "call", "ret", "halt", "ecall", "err"}
Instruction == [op : Ops, arg : Nat]
Context == [program : Seq(Instruction), pc : Nat, reg : Int, cell : Int, stack : Seq(Nat), halt : BOOLEAN]
Goal == [cmd : {"none", "step", "next", "to", "finish"}, left : Int, target : Int, depth : Nat,
         first : BOOLEAN, at : Nat]
Table == [kind : {"addr", "class"}, addr : Nat, class : {"none", "branch", "memory", "ecall"},
          condition : Condition, enabled : BOOLEAN, hits : Nat]

TypeOK ==
    /\ file \in Files /\ ctx \in Context
    /\ breakpoints \in [DOMAIN breakpoints -> Table]
    /\ watched \in BOOLEAN /\ cycles \in Nat /\ before \in Int
    /\ state \in {"stopped", "running", "halted", "error"}
    /\ doing \in Goal

(* What an instruction makes of context c.                                     *)
Becomes(c, i, d) ==
    /\ d \in Context
    /\ i.op \notin {"call", "ret"} => d.stack = c.stack
    /\ i.op = "call" => d.stack = Append(c.stack, c.pc + 1) /\ d.reg = c.reg /\ d.pc = i.arg
    /\ i.op = "ret" /\ c.stack # <<>> => d.stack = Front(c.stack) /\ d.pc = Last(c.stack)
    /\ i.op = "ret" /\ c.stack = <<>> => d.stack = c.stack
    /\ i.op \in {"ret", "halt"} => d.reg = c.reg

LEMMA LastFront ==
    ASSUME NEW s \in Seq(Nat), s # <<>>
    PROVE  /\ Last(s) \in Nat /\ Front(s) \in Seq(Nat) /\ Len(Front(s)) = Len(s) - 1
           /\ Last(s) = s[Len(s)] /\ \A k \in 1..(Len(s) - 1) : Front(s)[k] = s[k]
<1>1. Len(s) \in Nat /\ Len(s) >= 1 /\ s[Len(s)] \in Nat
  <2>1. Len(s) \in Nat /\ Len(s) # 0
    OBVIOUS
  <2>2. Len(s) \in 1..Len(s)
    BY <2>1
  <2> QED BY <2>1, <2>2
<1> DEFINE n == Len(s) - 1
<1>2. n \in Nat /\ n <= Len(s)
  BY <1>1
<1>3. Front(s) = SubSeq(s, 1, n)
  BY DEF Front
<1>4. SubSeq(s, 1, n) \in Seq(Nat) /\ Len(SubSeq(s, 1, n)) = n
  <2>1. \A k \in 1..n : s[k] \in Nat
    BY <1>1, <1>2
  <2>2. SubSeq(s, 1, n) \in Seq(Nat) /\ Len(SubSeq(s, 1, n)) = IF 1 <= n THEN n - 1 + 1 ELSE 0
    BY <1>2, <2>1, SubSeqProperties
  <2> HIDE DEF n
  <2>3. n >= 1 \/ n = 0
    BY <1>2
  <2>4. (IF 1 <= n THEN n - 1 + 1 ELSE 0) = n
    BY <1>2, <2>3
  <2> QED BY <2>2, <2>4
<1>5. ASSUME NEW k \in 1..n
      PROVE  SubSeq(s, 1, n)[k] = s[k]
  BY <1>1, <1>2, <1>5
<1> QED BY <1>1, <1>3, <1>4, <1>5 DEF Last

LEMMA ExecutedBecomes ==
    ASSUME NEW c \in Context, NEW i \in Instruction, i.op # "err", NEW d, d = Executed(c, i)
    PROVE  Becomes(c, i, d)
<1>1. /\ c.pc \in Nat /\ c.pc + 1 \in Nat /\ c.reg \in Int /\ c.cell \in Int /\ c.stack \in Seq(Nat)
      /\ i.arg \in Nat /\ i.arg \in Int /\ i.op \in Ops
  BY DEF Context, Instruction
<1>2. CASE i.op = "set"
  <2>1. d = [c EXCEPT !.pc = c.pc + 1, !.reg = i.arg]
    BY <1>2 DEF Executed
  <2>2. d \in Context
    BY <1>1, <2>1 DEF Context
  <2>3. d.stack = c.stack
    BY <1>1, <2>1 DEF Context
  <2> QED BY <1>2, <2>2, <2>3 DEF Becomes
<1>3. CASE i.op = "load"
  <2>1. d = [c EXCEPT !.pc = c.pc + 1, !.reg = c.cell]
    BY <1>3 DEF Executed
  <2>2. d \in Context
    BY <1>1, <2>1 DEF Context
  <2>3. d.stack = c.stack
    BY <1>1, <2>1 DEF Context
  <2> QED BY <1>3, <2>2, <2>3 DEF Becomes
<1>4. CASE i.op = "store"
  <2>1. d = [c EXCEPT !.pc = c.pc + 1, !.cell = c.reg]
    BY <1>4 DEF Executed
  <2>2. d \in Context
    BY <1>1, <2>1 DEF Context
  <2>3. d.stack = c.stack
    BY <1>1, <2>1 DEF Context
  <2> QED BY <1>4, <2>2, <2>3 DEF Becomes
<1>5. CASE i.op = "jif"
  <2>1. PICK p \in Nat : d = [c EXCEPT !.pc = p]
    BY <1>1, <1>5 DEF Executed
  <2>2. d \in Context
    BY <1>1, <2>1 DEF Context
  <2>3. d.stack = c.stack
    BY <1>1, <2>1 DEF Context
  <2> QED BY <1>5, <2>2, <2>3 DEF Becomes
<1>6. CASE i.op = "call"
  <2> DEFINE s == Append(c.stack, c.pc + 1)
  <2>1. d = [c EXCEPT !.pc = i.arg, !.stack = s]
    BY <1>6 DEF Executed
  <2>2. s \in Seq(Nat)
    BY <1>1
  <2> HIDE DEF s
  <2>3. d \in Context
    BY <1>1, <2>1, <2>2 DEF Context
  <2>4. d.stack = s /\ d.reg = c.reg /\ d.pc = i.arg
    BY <1>1, <2>1, <2>2 DEF Context
  <2> QED BY <1>6, <2>3, <2>4 DEF Becomes, s
<1>7. CASE i.op = "ret" /\ c.stack # <<>>
  <2> DEFINE s == Front(c.stack)
             p == Last(c.stack)
  <2>1. d = [c EXCEPT !.pc = p, !.stack = s]
    BY <1>7 DEF Executed
  <2>2. s \in Seq(Nat) /\ p \in Nat
    BY <1>1, <1>7, LastFront
  <2> HIDE DEF s, p
  <2>3. d \in Context
    BY <1>1, <2>1, <2>2 DEF Context
  <2>4. d.stack = s /\ d.reg = c.reg /\ d.pc = p
    BY <1>1, <2>1, <2>2 DEF Context
  <2> QED BY <1>7, <2>3, <2>4 DEF Becomes, s, p
<1>8. CASE i.op = "halt" \/ (i.op = "ret" /\ c.stack = <<>>)
  <2>1. d = [c EXCEPT !.halt = TRUE]
    BY <1>8 DEF Executed
  <2>2. d \in Context
    BY <1>1, <2>1 DEF Context
  <2>3. d.stack = c.stack /\ d.reg = c.reg
    BY <1>1, <2>1 DEF Context
  <2> QED BY <1>8, <2>2, <2>3 DEF Becomes
<1>9. CASE i.op = "ecall"
  <2>1. d = [c EXCEPT !.pc = c.pc + 1]
    BY <1>9 DEF Executed
  <2>2. d \in Context
    BY <1>1, <2>1 DEF Context
  <2>3. d.stack = c.stack
    BY <1>1, <2>1 DEF Context
  <2> QED BY <1>9, <2>2, <2>3 DEF Becomes
<1> QED BY <1>1, <1>2, <1>3, <1>4, <1>5, <1>6, <1>7, <1>8, <1>9 DEF Ops

(* A frame that was at n on the stack is there still, with its return address, *)
(* or it is the one that has just returned.                                    *)
Frame(c, n, at) ==
    \/ Len(c.stack) >= n /\ c.stack[n] = at
    \/ Len(c.stack) = n - 1 /\ c.pc = at

LEMMA FrameStep ==
    ASSUME NEW c \in Context, NEW i, NEW d, Becomes(c, i, d), NEW n \in Nat, n >= 1, NEW at,
           Len(c.stack) >= n, Frame(c, n, at)
    PROVE  Frame(d, n, at)
<1>1. c.stack \in Seq(Nat) /\ d.stack \in Seq(Nat) /\ Len(c.stack) \in Nat /\ c.pc \in Nat
  BY DEF Context, Becomes
<1>2. c.stack[n] = at
  BY <1>1 DEF Frame
<1>3. CASE d.stack = c.stack
  BY <1>2, <1>3 DEF Frame
<1>4. CASE i.op = "call"
  <2>1. d.stack = Append(c.stack, c.pc + 1)
    BY <1>4 DEF Becomes
  <2>2. Len(d.stack) >= n /\ d.stack[n] = c.stack[n]
    BY <1>1, <2>1
  <2> QED BY <1>2, <2>2 DEF Frame
<1>5. CASE i.op = "ret" /\ c.stack # <<>>
  <2>1. d.stack = Front(c.stack) /\ d.pc = Last(c.stack)
    BY <1>5 DEF Becomes
  <2>2. /\ Len(d.stack) = Len(c.stack) - 1 /\ d.pc = c.stack[Len(c.stack)]
        /\ \A k \in 1..(Len(c.stack) - 1) : d.stack[k] = c.stack[k]
    BY <1>1, <1>5, <2>1, LastFront
  <2>3. CASE Len(c.stack) = n
    BY <1>1, <1>2, <2>2, <2>3 DEF Frame
  <2>4. CASE Len(c.stack) > n
    <3>1. n \in 1..(Len(c.stack) - 1) /\ Len(d.stack) >= n
      BY <1>1, <2>2, <2>4
    <3>2. d.stack[n] = at
      BY <1>2, <2>2, <3>1
    <3> QED BY <3>1, <3>2 DEF Frame
  <2> QED BY <1>1, <2>3, <2>4
<1> QED BY <1>3, <1>4, <1>5 DEF Becomes
------------------------------------------------------------------------------
(* step_one keeps the types, and says what became of the context.              *)
LEMMA Fetched ==
    ASSUME TypeOK, InProgram(ctx)
    PROVE  Instr \in Instruction
BY DEF TypeOK, Context, InProgram, Instr

LEMMA StepOneRuns ==
    ASSUME TypeOK, StepOne, Executes
    PROVE  Instr \in Instruction /\ Firing = {} /\ Becomes(ctx, Instr, ctx')
<1>1. InProgram(ctx) /\ Firing = {} /\ Instr.op # "err"
  BY DEF Executes, Reason
<1>2. Instr \in Instruction
  BY <1>1, Fetched
<1>3. ctx' = Executed(ctx, Instr)
  BY DEF StepOne
<1> QED BY <1>1, <1>2, <1>3, ExecutedBecomes DEF TypeOK

LEMMA StepOneTypes ==
    ASSUME TypeOK, StepOne, doing' \in Goal
    PROVE  TypeOK'
<1>1. ctx' \in Context
  BY StepOneRuns DEF StepOne, TypeOK, Becomes
<1>2. breakpoints' \in [DOMAIN breakpoints' -> Table]
  <2> DEFINE b == Min(Firing)
  <2>1. CASE Reason = "breakpoint" /\ b \in DOMAIN breakpoints
    <3>1. breakpoints[b] \in Table
      BY <2>1 DEF TypeOK
    <3>2. [breakpoints[b] EXCEPT !.hits = @ + 1] \in Table
      BY <3>1 DEF Table
    <3>3. breakpoints' = [breakpoints EXCEPT ![b] = [breakpoints[b] EXCEPT !.hits = @ + 1]]
      BY <2>1 DEF StepOne
    <3> HIDE DEF b
    <3> QED BY <2>1, <3>2, <3>3 DEF TypeOK
  <2>2. CASE Reason = "breakpoint" /\ b \notin DOMAIN breakpoints
    <3>1. breakpoints' = [breakpoints EXCEPT ![b].hits = @ + 1]
      BY <2>2 DEF StepOne
    <3> HIDE DEF b
    <3>2. breakpoints' = breakpoints
      BY <2>2, <3>1 DEF TypeOK
    <3> QED BY <3>2 DEF TypeOK
  <2>3. CASE Reason # "breakpoint"
    BY <2>3 DEF StepOne, TypeOK
  <2> QED BY <2>1, <2>2, <2>3
<1>3. cycles' \in Nat /\ file' \in Files /\ watched' \in BOOLEAN /\ before' \in Int
  BY DEF StepOne, TypeOK, Captured, Context
<1>4. state' \in {"stopped", "running", "halted", "error"}
  BY DEF StepOne, StateFor, Reason, TypeOK
<1> QED BY <1>1, <1>2, <1>3, <1>4 DEF TypeOK

(* The hit count is the only thing that a breakpoint that fires changes, so it *)
(* fires on the same instruction again.                                        *)
LEMMA StillFiring ==
    ASSUME TypeOK, StepOne, Reason = "breakpoint"
    PROVE  ctx' = ctx /\ Firing' # {}
<1>1. ctx' = ctx
  BY DEF StepOne, Executes
<1>2. PICK id \in DOMAIN breakpoints : Matches(breakpoints[id]) /\ Holds(breakpoints[id].condition)
  BY DEF Reason, Firing
<1> DEFINE b == Min(Firing)
<1>3. breakpoints' = [breakpoints EXCEPT ![b].hits = @ + 1]
  BY DEF StepOne
<1> HIDE DEF b
<1>4. /\ id \in DOMAIN breakpoints' /\ breakpoints[id] \in Table
      /\ breakpoints'[id] = breakpoints[id] \/ breakpoints'[id] = [breakpoints[id] EXCEPT !.hits = @ + 1]
  BY <1>3 DEF TypeOK
<1> DEFINE bp == breakpoints[id]
<1>5. /\ bp'.enabled = bp.enabled /\ bp'.kind = bp.kind /\ bp'.class = bp.class
      /\ bp'.addr = bp.addr /\ bp'.condition = bp.condition
  BY <1>4 DEF Table
<1>6. Matches(bp)' <=> Matches(bp)
  BY <1>1, <1>5 DEF Matches, Instr
<1>7. Holds(bp.condition)' <=> Holds(bp.condition)
  BY <1>1, <1>5 DEF Holds
<1> QED BY <1>1, <1>2, <1>4, <1>6, <1>7 DEF Firing
------------------------------------------------------------------------------
(* What the goal of the running command says of the stack.  A first next keeps *)
(* the place it starts from; afterwards the frame it entered is on the stack,  *)
(* has returned, or a breakpoint held the call.                                *)
GoalInv ==
    /\ Busy => state = "stopped"
    /\ doing.cmd = "finish" => doing.depth >= 1 /\ Frame(ctx, doing.depth, doing.at)
    /\ doing.cmd = "next" /\ doing.first => doing.depth = Depth(ctx) /\ doing.at = ctx.pc
    /\ doing.cmd = "next" /\ ~doing.first =>
          \/ Frame(ctx, doing.depth + 1, doing.at + 1)
          \/ Depth(ctx) = doing.depth /\ ctx.pc = doing.at /\ Firing # {}
Inv == TypeOK /\ GoalInv

LEMMA InitInv == Init => Inv
<1> SUFFICES ASSUME Init
             PROVE  Inv
  OBVIOUS
<1>1. file.data \in Int /\ file.program \in Seq(Instruction)
  BY FilesAssumption DEF Init, Instruction, Ops
<1>2. ctx \in Context
  BY <1>1 DEF Init, Loaded, Machine, Context
<1>3. doing \in Goal
  BY DEF Init, Nothing, Goal
<1>4. breakpoints \in [DOMAIN breakpoints -> Table]
  BY DEF Init
<1>5. GoalInv
  BY DEF Init, Nothing, GoalInv, Busy
<1>6. cycles \in Nat /\ before \in Int
  BY DEF Init
<1> QED BY <1>2, <1>3, <1>4, <1>5, <1>6 DEF Init, TypeOK, Inv

(* A step that leaves no command running keeps the goal.                       *)
LEMMA NothingHeld ==
    ASSUME doing' = Nothing
    PROVE  GoalInv' /\ doing' \in Goal
BY DEF Nothing, GoalInv, Busy, Goal

LEMMA IterateInv ==
    ASSUME Inv, Iterate
    PROVE  Inv'
<1> USE DEF Inv
<1>1. CASE ~(InProgram(ctx) /\ GoesOn)
  <2>1. doing' = Nothing
    BY <1>1 DEF Iterate
  <2> QED BY <2>1, NothingHeld, StepOneTypes DEF Iterate
<1>2. CASE InProgram(ctx) /\ GoesOn
  <2>1. /\ doing \in Goal /\ state = "stopped" /\ ctx \in Context
        /\ Len(ctx.stack) \in Nat /\ ctx.pc \in Nat /\ doing.depth \in Nat
    BY DEF Iterate, GoalInv, TypeOK, Context, Goal
  <2>2. PICK l \in Int : doing' = [doing EXCEPT !.left = l, !.first = FALSE]
    <3>1. doing.left \in Int /\ doing.left - 1 \in Int
      BY <2>1 DEF Goal
    <3> QED BY <1>2, <3>1 DEF Iterate
  <2>3. /\ doing' \in Goal /\ doing'.cmd = doing.cmd /\ doing'.depth = doing.depth
        /\ doing'.at = doing.at /\ ~doing'.first
    BY <2>1, <2>2 DEF Goal
  <2>4. TypeOK'
    BY <2>3, StepOneTypes DEF Iterate
  <2>5. state' = "stopped"
    BY <1>2, <2>1 DEF Iterate, StepOne, GoesOn, StateFor
  <2>6. ASSUME doing.cmd = "finish"
        PROVE  doing.depth >= 1 /\ Frame(ctx', doing.depth, doing.at)
    <3>1. Executes
      BY <1>2, <2>6 DEF GoesOn, Executes
    <3>2. Becomes(ctx, Instr, ctx')
      BY <3>1, StepOneRuns DEF Iterate
    <3>3. /\ doing.depth >= 1 /\ Frame(ctx, doing.depth, doing.at)
          /\ Len(ctx.stack) >= doing.depth
      BY <2>1, <2>6 DEF GoalInv, Iterate, Arrived, Depth
    <3> QED BY <2>1, <3>2, <3>3, FrameStep
  <2>7. ASSUME doing.cmd = "next", ~doing.first
        PROVE  Frame(ctx', doing.depth + 1, doing.at + 1)
    <3>1. Executes
      BY <1>2, <2>7 DEF GoesOn, Executes
    <3>2. Becomes(ctx, Instr, ctx')
      BY <3>1, StepOneRuns DEF Iterate
    <3>3. Len(ctx.stack) > doing.depth
      BY <2>1, <2>7 DEF Iterate, Arrived, Depth
    <3>4. Frame(ctx, doing.depth + 1, doing.at + 1) /\ Len(ctx.stack) >= doing.depth + 1
      BY <2>1, <2>7, <3>3 DEF GoalInv, Depth
    <3>5. doing.depth + 1 \in Nat /\ doing.depth + 1 >= 1
      BY <2>1
    <3> QED BY <2>1, <3>2, <3>4, <3>5, FrameStep
  <2>8. ASSUME doing.cmd = "next", doing.first
        PROVE  \/ Frame(ctx', doing.depth + 1, doing.at + 1)
               \/ Depth(ctx') = doing.depth /\ ctx'.pc = doing.at /\ Firing' # {}
    <3>1. doing.depth = Depth(ctx) /\ doing.at = ctx.pc
      BY <2>8 DEF GoalInv
    <3>2. StateFor(Reason) = "stopped" /\ Instr.op = "call"
      BY <1>2, <2>8 DEF GoesOn
    <3>3. CASE Reason = "breakpoint"
      BY <3>1, <3>3, StillFiring DEF Iterate
    <3>4. CASE Reason # "breakpoint"
      <4>1. Reason \in {"watchpoint", "none"}
        BY <3>2, <3>4 DEF StateFor, Reason
      <4>2. Becomes(ctx, Instr, ctx')
        BY <4>1, StepOneRuns DEF Iterate, Executes
      <4>3. ctx'.stack = Append(ctx.stack, ctx.pc + 1) /\ ctx.stack \in Seq(Nat) /\ ctx.pc + 1 \in Nat
        BY <2>1, <3>2, <4>2 DEF Becomes, Context
      <4>4. Len(ctx'.stack) = Len(ctx.stack) + 1 /\ ctx'.stack[Len(ctx.stack) + 1] = ctx.pc + 1
        BY <4>3
      <4> QED BY <2>1, <3>1, <4>4 DEF Frame, Depth
    <3> QED BY <3>3, <3>4
  <2>9. GoalInv'
    BY <2>3, <2>5, <2>6, <2>7, <2>8 DEF GoalInv
  <2> QED BY <2>4, <2>9
<1> QED BY <1>1, <1>2
LEMMA RunBatchInv ==
    ASSUME Inv, RunBatch
    PROVE  Inv'
<1>1. doing' = Nothing
  BY DEF Inv, GoalInv, RunBatch, Busy
<1> QED BY <1>1, NothingHeld, StepOneTypes DEF Inv, RunBatch

(* The steps that change neither the engine nor the program.                   *)
LEMMA ControlInv ==
    ASSUME Inv, Arrive \/ StartBatch \/ Interrupt
    PROVE  Inv'
<1>1. doing' = Nothing
  BY DEF Inv, GoalInv, Arrive, StartBatch, Interrupt, Busy
<1>2. state' \in {"stopped", "running", "halted", "error"}
  BY DEF Inv, TypeOK, Arrive, StartBatch, Interrupt
<1>3. UNCHANGED engine
  BY DEF Arrive, StartBatch, Interrupt
<1> QED BY <1>1, <1>2, <1>3, NothingHeld DEF Inv, TypeOK, engine

(* The commands with a loop start where the engine stands.                     *)
LEMMA BeginInv ==
    ASSUME Inv, NEW e \in Entries, Step(e) \/ Next_(e) \/ RunTo(e) \/ Finish(e)
    PROVE  Inv'
<1>1. /\ UNCHANGED <<engine, state>> /\ state = "stopped"
      /\ ctx \in Context /\ ctx.stack \in Seq(Nat) /\ Depth(ctx) \in Nat /\ ctx.pc \in Nat
  BY DEF Inv, TypeOK, Context, Depth, Step, Next_, RunTo, Finish, Begin, Enter, Idle, Terminated
<1>2. e.arg \in Int
  BY EntriesAssumption
<1>3. Nothing \in Goal /\ Nothing.first = FALSE
  BY DEF Nothing, Goal
<1>4. CASE Step(e)
  <2>1. doing' = [[Nothing EXCEPT !.left = e.arg] EXCEPT !.cmd = "step"]
    BY <1>4 DEF Step, Begin
  <2>2. doing' \in Goal /\ doing'.cmd = "step"
    BY <1>2, <1>3, <2>1 DEF Goal
  <2> QED BY <1>1, <2>2 DEF Inv, TypeOK, GoalInv, engine
<1>5. CASE Next_(e)
  <2> DEFINE n == Depth(ctx)
  <2>1. doing' = [[Nothing EXCEPT !.depth = n, !.first = TRUE, !.at = ctx.pc] EXCEPT !.cmd = "next"]
    BY <1>5 DEF Next_, Begin
  <2> HIDE DEF n
  <2>2. /\ doing' \in Goal /\ doing'.cmd = "next" /\ doing'.first
        /\ doing'.depth = n /\ doing'.at = ctx.pc
    BY <1>1, <1>3, <2>1 DEF Goal, n
  <2>3. ctx' = ctx /\ n = Depth(ctx)'
    BY <1>1 DEF engine, n, Depth
  <2> QED BY <1>1, <2>2, <2>3 DEF Inv, TypeOK, GoalInv, engine
<1>6. CASE RunTo(e)
  <2>1. doing' = [[Nothing EXCEPT !.target = e.arg] EXCEPT !.cmd = "to"]
    BY <1>6 DEF RunTo, Begin
  <2>2. doing' \in Goal /\ doing'.cmd = "to"
    BY <1>2, <1>3, <2>1 DEF Goal
  <2> QED BY <1>1, <2>2 DEF Inv, TypeOK, GoalInv, engine
<1>7. CASE Finish(e)
  <2> DEFINE n == Depth(ctx)
             r == Last(ctx.stack)
  <2>1. doing' = [[Nothing EXCEPT !.depth = n, !.at = r] EXCEPT !.cmd = "finish"]
    BY <1>7 DEF Finish, Begin
  <2>2. n > 0 /\ ctx.stack # <<>>
    BY <1>1, <1>7 DEF Finish, Depth
  <2>3. r \in Nat /\ r = ctx.stack[n]
    BY <1>1, <2>2, LastFront DEF Depth
  <2>4. Len(ctx.stack) >= n
    BY <1>1 DEF Depth
  <2> HIDE DEF n, r
  <2>5. doing' \in Goal /\ doing'.cmd = "finish" /\ doing'.depth = n /\ doing'.at = r
    BY <1>1, <1>3, <2>1, <2>3 DEF Goal, n
  <2>6. n >= 1 /\ Frame(ctx, n, r)
    BY <1>1, <2>2, <2>3, <2>4 DEF Frame, n
  <2>7. ctx' = ctx
    BY <1>1 DEF engine
  <2> QED BY <1>1, <2>5, <2>6, <2>7 DEF Inv, TypeOK, GoalInv, engine
<1> QED BY <1>4, <1>5, <1>6, <1>7

LEMMA AddedTypes ==
    ASSUME breakpoints \in [DOMAIN breakpoints -> Table], NEW bp \in Table,
           breakpoints' = [id \in DOMAIN breakpoints \cup {nextId} |-> IF id = nextId THEN bp ELSE breakpoints[id]]
    PROVE  breakpoints' \in [DOMAIN breakpoints' -> Table]
OBVIOUS

LEMMA WithoutTypes ==
    ASSUME breakpoints \in [DOMAIN breakpoints -> Table], NEW ids, Without(ids)
    PROVE  breakpoints' \in [DOMAIN breakpoints' -> Table]
BY DEF Without, Restrict

(* The commands that edit the table of breakpoints, the watchpoint and the rest.*)
LEMMA EditTypes ==
    ASSUME TypeOK, NEW e \in Entries,
           Break(e) \/ BreakClass(e) \/ Toggle(e) \/ Delete(e) \/ DeleteAll(e) \/ Enable(e)
    PROVE  breakpoints' \in [DOMAIN breakpoints' -> Table]
<1>1. breakpoints \in [DOMAIN breakpoints -> Table] /\ ctx \in Context /\ ctx.pc \in Nat
  BY DEF TypeOK, Context
<1>2. e.arg \in Nat /\ e.class \in {"none", "branch", "memory", "ecall"} /\ e.condition \in Condition
  BY EntriesAssumption
<1>3. NoCondition \in Condition
  BY DEF NoCondition, Condition
<1>4. CASE Break(e)
  <2>1. Breakpoint("addr", e.arg, "none", e.condition) \in Table
    BY <1>2 DEF Breakpoint, Table
  <2> QED BY <1>1, <1>4, <2>1, AddedTypes DEF Break, Added
<1>5. CASE BreakClass(e)
  <2>1. Breakpoint("class", 0, e.class, NoCondition) \in Table
    BY <1>2, <1>3 DEF Breakpoint, Table
  <2> QED BY <1>1, <1>5, <2>1, AddedTypes DEF BreakClass, Added
<1>6. CASE Toggle(e)
  <2>1. Breakpoint("addr", ctx.pc, "none", NoCondition) \in Table
    BY <1>1, <1>3 DEF Breakpoint, Table
  <2>2. Added("addr", ctx.pc, "none", NoCondition) \/ \E ids : Without(ids)
    BY <1>6 DEF Toggle
  <2> QED BY <1>1, <2>1, <2>2, AddedTypes, WithoutTypes DEF Added
<1>7. CASE Delete(e) \/ DeleteAll(e)
  BY <1>1, <1>7, WithoutTypes DEF Delete, DeleteAll
<1>8. CASE Enable(e)
  <2>1. \A id \in DOMAIN breakpoints : [breakpoints[id] EXCEPT !.enabled = (e.cmd = "enable")] \in Table
    <3>1. TAKE id \in DOMAIN breakpoints
    <3> DEFINE b == (e.cmd = "enable")
    <3>2. breakpoints[id] \in Table /\ b \in BOOLEAN
      BY <1>1
    <3> HIDE DEF b
    <3>3. [breakpoints[id] EXCEPT !.enabled = b] \in Table
      BY <3>2 DEF Table
    <3> QED BY <3>3 DEF b
  <2> QED BY <1>1, <1>8, <2>1 DEF Enable
<1> QED BY <1>4, <1>5, <1>6, <1>7, <1>8

LEMMA EditInv ==
    ASSUME Inv, NEW e \in Entries,
           Break(e) \/ BreakClass(e) \/ Toggle(e) \/ Delete(e) \/ DeleteAll(e) \/ Enable(e)
    PROVE  Inv'
<1>1. doing' = Nothing /\ UNCHANGED <<file, ctx, watched, cycles, before, state>>
  BY DEF Break, BreakClass, Toggle, Delete, DeleteAll, Enable, Edit, Enter, Idle, Busy
<1> QED BY <1>1, EditTypes, NothingHeld DEF Inv, TypeOK

LEMMA OtherInv ==
    ASSUME Inv, NEW e \in Entries, Continue(e) \/ Watch(e) \/ Restart(e) \/ Load(e)
    PROVE  Inv'
<1>1. doing' = Nothing
  BY DEF Continue, Watch, Restart, Load, Fresh, Enter, Idle, Busy
<1>2. CASE Continue(e) \/ Watch(e)
  <2>1. UNCHANGED <<file, ctx, breakpoints, cycles, before>> /\ watched' \in BOOLEAN /\ state' \in {state, "running"}
    BY <1>2 DEF Continue, Watch, engine, Inv, TypeOK
  <2> QED BY <1>1, <2>1, NothingHeld DEF Inv, TypeOK
<1>3. CASE Restart(e) \/ Load(e)
  <2>1. PICK f \in Files : Fresh(f)
    BY <1>3 DEF Restart, Load, Inv, TypeOK
  <2>2. f.program \in Seq(Instruction)
    BY FilesAssumption DEF Instruction, Ops
  <2>3. ctx' \in Context
    BY <2>1, <2>2 DEF Fresh, Machine, Context
  <2> QED BY <1>1, <2>1, <2>3, NothingHeld DEF Fresh, Inv, TypeOK
<1> QED BY <1>2, <1>3

LEMMA NextInv ==
    ASSUME Inv, [Next]_vars
    PROVE  Inv'
<1>1. CASE Next
  BY <1>1, IterateInv, RunBatchInv, ControlInv, BeginInv, EditInv, OtherInv DEF Next, Working, Command
<1>2. CASE UNCHANGED vars
  BY <1>2 DEF vars, engine, Inv, TypeOK, GoalInv, Busy, Frame, Depth, Firing, Matches, Holds, Instr
<1> QED BY <1>1, <1>2

(* The engine's state has its types, whatever the files and the commands.      *)
THEOREM TypesOK == Spec => []TypeOK
<1>1. Spec => []Inv
  BY InitInv, NextInv, PTL DEF Spec
<1> QED BY <1>1, PTL DEF Inv
------------------------------------------------------------------------------
(* A step of Next that does not execute an instruction does not count a cycle. *)
LEMMA CyclesGrow ==
    ASSUME Inv, [Next]_vars, cycles' > cycles
    PROVE  Iterate \/ RunBatch
<1>1. cycles \in Nat
  BY DEF Inv, TypeOK
<1>2. CASE Arrive \/ StartBatch \/ Interrupt \/ UNCHANGED vars
  BY <1>1, <1>2 DEF Arrive, StartBatch, Interrupt, vars, engine
<1>3. ASSUME NEW e \in Entries, Command(e)
      PROVE  cycles' = cycles \/ cycles' = 0
  BY <1>3 DEF Command, Step, Next_, RunTo, Finish, Continue, Break, BreakClass, Toggle, Delete, DeleteAll, Enable,
              Edit, Watch, Restart, Load, Fresh, Begin, engine
<1> QED BY <1>1, <1>2, <1>3 DEF Next, Working

LEMMA NothingMissed ==
    ASSUME Inv, StepOne, cycles' > cycles, state \in {"stopped", "running"}
    PROVE  /\ Executes /\ Firing = {} /\ Becomes(ctx, Instr, ctx')
           /\ watched /\ ctx'.reg # ctx.reg => Reason # "none" /\ state' # "running"
<1>1. cycles \in Nat
  BY DEF Inv, TypeOK
<1>2. Executes
  BY <1>1 DEF StepOne
<1>3. Firing = {} /\ Becomes(ctx, Instr, ctx')
  BY <1>2, StepOneRuns DEF Inv
<1>4. ASSUME watched, ctx'.reg # ctx.reg
      PROVE  Reason # "none"
  <2>1. ctx' = Executed(ctx, Instr)
    BY <1>2 DEF StepOne
  <2>2. WatchTriggered(Executed(ctx, Instr))
    BY <1>2, <1>4, <2>1 DEF WatchTriggered, Captured, Executes, Reason
  <2> QED BY <1>2, <2>2 DEF Reason, Executes
<1>5. Reason # "none" => state' \in {"stopped", "halted"}
  BY <1>2 DEF StepOne, StateFor, Executes
<1> QED BY <1>2, <1>3, <1>4, <1>5

LEMMA NoStopMissedStep ==
    ASSUME Inv, [Next]_vars, cycles' > cycles
    PROVE  /\ ~Terminated
           /\ \A id \in DOMAIN breakpoints : ~(Matches(breakpoints[id]) /\ Holds(breakpoints[id].condition))
           /\ watched /\ ctx'.reg # ctx.reg => ~Busy' /\ state' # "running"
<1>1. CASE RunBatch
  <2>1. state = "running" /\ StepOne /\ doing' = doing /\ ~Busy
    BY <1>1 DEF RunBatch, Inv, GoalInv
  <2>2. ~Busy'
    BY <2>1 DEF Busy
  <2> QED BY <2>1, <2>2, NothingMissed DEF Terminated, Firing
<1>2. CASE Iterate
  <2>1. state = "stopped" /\ StepOne
    BY <1>2 DEF Iterate, Inv, GoalInv
  <2>2. ASSUME watched, ctx'.reg # ctx.reg
        PROVE  ~Busy'
    <3>1. Reason # "none" /\ Becomes(ctx, Instr, ctx')
      BY <2>1, <2>2, NothingMissed
    <3>2. Instr.op # "call"
      BY <2>2, <3>1 DEF Becomes
    <3>3. ~GoesOn
      BY <3>1, <3>2 DEF GoesOn
    <3> QED BY <1>2, <3>3 DEF Iterate, Busy
  <2> QED BY <2>1, <2>2, NothingMissed DEF Terminated, Firing
<1> QED BY <1>1, <1>2, CyclesGrow

(* Whatever the command, no instruction runs at an enabled breakpoint that     *)
(* fires, none runs after the watched register changed, none runs in a program *)
(* that has ended.                                                             *)
THEOREM NoStopIsMissed == Spec => NoStopMissed
<1>1. Spec => []Inv
  BY InitInv, NextInv, PTL DEF Spec
<1>2. Inv /\ [Next]_vars =>
        [cycles' > cycles =>
            /\ ~Terminated
            /\ \A id \in DOMAIN breakpoints : ~(Matches(breakpoints[id]) /\ Holds(breakpoints[id].condition))
            /\ watched /\ ctx'.reg # ctx.reg => ~Busy' /\ state' # "running"]_vars
  BY NoStopMissedStep
<1> QED BY <1>1, <1>2, PTL DEF Spec, NoStopMissed

LEMMA ArriveStep ==
    ASSUME Inv, Arrive
    PROVE  /\ doing.cmd = "next" => /\ ctx.pc = doing.at + 1 \/ (ctx.pc = doing.at /\ Firing # {})
                                    /\ Depth(ctx) = doing.depth
           /\ doing.cmd = "finish" => ctx.pc = doing.at /\ Depth(ctx) = doing.depth - 1
<1>1. doing.depth \in Nat /\ Len(ctx.stack) \in Nat
  BY DEF Inv, TypeOK, Goal, Context
<1>2. ASSUME doing.cmd = "next"
      PROVE  /\ ctx.pc = doing.at + 1 \/ (ctx.pc = doing.at /\ Firing # {})
             /\ Depth(ctx) = doing.depth
  <2>1. ~doing.first /\ Len(ctx.stack) <= doing.depth
    BY <1>2 DEF Arrive, Arrived, Depth
  <2> QED BY <1>1, <1>2, <2>1 DEF Inv, GoalInv, Frame, Depth
<1>3. ASSUME doing.cmd = "finish"
      PROVE  ctx.pc = doing.at /\ Depth(ctx) = doing.depth - 1
  <2>1. Len(ctx.stack) < doing.depth
    BY <1>3 DEF Arrive, Arrived, Depth
  <2> QED BY <1>1, <1>3, <2>1 DEF Inv, GoalInv, Frame, Depth
<1> QED BY <1>2, <1>3

(* A next or a finish that gets to its end is where the call or the frame      *)
(* returns to, however deep the calls in between went.                         *)
THEOREM ArrivesThere == Spec => ArrivesWhereSaid
<1>1. Spec => []Inv
  BY InitInv, NextInv, PTL DEF Spec
<1>2. Inv => [Arrive =>
        /\ doing.cmd = "next" => /\ ctx.pc = doing.at + 1 \/ (ctx.pc = doing.at /\ Firing # {})
                                 /\ Depth(ctx) = doing.depth
        /\ doing.cmd = "finish" => ctx.pc = doing.at /\ Depth(ctx) = doing.depth - 1]_vars
  BY ArriveStep
<1> QED BY <1>1, <1>2, PTL DEF ArrivesWhereSaid
=============================================================================
