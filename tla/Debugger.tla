------------------------------- MODULE Debugger --------------------------------
(* cqam-dbg: the engine that steps a program under breakpoints and             *)
(* watchpoints, and the commands and the event loop above it.  A command that  *)
(* runs several instructions is here a loop of its own, one step_one an action.*)
EXTENDS Integers, Sequences, SequencesExt

CONSTANTS
    Files,        \* the program files: [program, data]
    Entries,      \* the command lines that the user may enter
    MaxCycles,    \* max_cycles
    BatchSize,    \* run_batch_size
    MaxEntries    \* bound: command lines and keys in one session

Condition == [op : {"none", "==", ">"}, value : Int]
ASSUME FilesAssumption ==
    \A f \in Files :
        /\ f.data \in Int
        /\ f.program \in Seq([op : {"set", "load", "store", "jif", "call", "ret", "halt", "ecall", "err"}, arg : Nat])
ASSUME EntriesAssumption ==
    \A e \in Entries :
        e.arg \in Nat /\ e.class \in {"none", "branch", "memory", "ecall"} /\ e.condition \in Condition

VARIABLES
    file,         \* program_path
    ctx,          \* the ExecutionContext
    breakpoints,  \* BreakpointTable: the breakpoints by their ids, which grow
    nextId,
    watched,      \* WatchpointTable: whether the register is watched
    cycles,       \* cycle_count
    before,       \* prev_snapshot: the register when step_one last began to execute
    state,        \* execution_state
    doing,        \* the command whose loop is running
    batch,        \* instructions left in the batch of Running mode
    entries       \* bound

engine == <<file, ctx, breakpoints, nextId, watched, cycles, before>>
vars == <<engine, state, doing, batch, entries>>

Nothing == [cmd |-> "none", left |-> 0, target |-> 0, depth |-> 0, first |-> FALSE, at |-> 0]
Machine(f, cell) == [program |-> f.program, pc |-> 1, reg |-> 0, cell |-> cell, stack |-> <<>>, halt |-> FALSE]
Loaded(f) == Machine(f, f.data)

Init ==
    /\ file \in Files /\ ctx = Loaded(file)
    /\ breakpoints = <<>> /\ nextId = 1 /\ watched = FALSE /\ cycles = 0 /\ before = 0
    /\ state = "stopped" /\ doing = Nothing /\ batch = 0 /\ entries = 0

Busy == doing # Nothing
InProgram(c) == c.pc \in DOMAIN c.program
Instr == ctx.program[ctx.pc]
Depth(c) == Len(c.stack)

------------------------------------------------------------------------------
(* execute_instruction, for one register, one cell and the calls.             *)
Executed(c, i) ==
    CASE i.op = "set" -> [c EXCEPT !.pc = @ + 1, !.reg = i.arg]
      [] i.op = "load" -> [c EXCEPT !.pc = @ + 1, !.reg = c.cell]
      [] i.op = "store" -> [c EXCEPT !.pc = @ + 1, !.cell = c.reg]
      [] i.op = "jif" -> [c EXCEPT !.pc = IF c.reg # 0 THEN i.arg ELSE @ + 1]
      [] i.op = "call" -> [c EXCEPT !.pc = i.arg, !.stack = Append(@, c.pc + 1)]
      [] i.op = "ret" /\ c.stack # <<>> -> [c EXCEPT !.pc = Last(c.stack), !.stack = Front(@)]
      [] i.op = "ret" /\ c.stack = <<>> -> [c EXCEPT !.halt = TRUE]
      [] i.op = "halt" -> [c EXCEPT !.halt = TRUE]
      [] i.op = "ecall" -> [c EXCEPT !.pc = @ + 1]

(* instruction_class                                                          *)
Class(i) == CASE i.op \in {"jif", "call", "ret", "halt"} -> "branch"
              [] i.op \in {"load", "store"} -> "memory"
              [] i.op = "ecall" -> "ecall"
              [] OTHER -> "none"

(* Condition::evaluate                                                        *)
Holds(cond) == CASE cond.op = "none" -> TRUE
                 [] cond.op = "==" -> ctx.reg = cond.value
                 [] cond.op = ">" -> ctx.reg > cond.value
Matches(bp) ==
    /\ bp.enabled
    /\ IF bp.kind = "class" THEN Class(Instr) = bp.class ELSE bp.addr = ctx.pc
Firing == {id \in DOMAIN breakpoints : Matches(breakpoints[id]) /\ Holds(breakpoints[id].condition)}

------------------------------------------------------------------------------
(* step_one: what becomes of the context, and the reason to stop.             *)
OutOfCycles == cycles >= MaxCycles
(* The snapshot, taken once the program is known to go on; the watchpoints     *)
(* compare with it.  (Faulty: taken only while the user steps, so that the     *)
(* panes show what changed since the last stop.)                               *)
CapturedAtStops == IF InProgram(ctx) /\ ~OutOfCycles /\ state # "running" THEN ctx.reg ELSE before
Captured == IF InProgram(ctx) /\ ~OutOfCycles THEN ctx.reg ELSE before
WatchTriggered(after) == watched /\ after.reg # Captured
Reason ==
    IF ~InProgram(ctx) THEN "end"
    ELSE IF OutOfCycles THEN "cycles"
    ELSE IF Firing # {} THEN "breakpoint"
    ELSE IF Instr.op = "err" THEN "error"
    ELSE IF Executed(ctx, Instr).halt THEN "halted"
    ELSE IF WatchTriggered(Executed(ctx, Instr)) THEN "watchpoint"
    ELSE "none"
Executes == Reason \in {"halted", "watchpoint", "none"}

StateForEndIgnored(reason) ==
    CASE reason \in {"breakpoint", "watchpoint"} -> "stopped"
      [] reason \in {"halted", "cycles"} -> "halted"
      [] reason = "error" -> "error"
      [] reason \in {"end", "none"} -> state
StateFor(reason) ==
    CASE reason \in {"breakpoint", "watchpoint"} -> "stopped"
      [] reason \in {"halted", "end", "cycles"} -> "halted"
      [] reason = "error" -> "error"
      [] reason = "none" -> state

StepOne ==
    /\ ctx' = IF Executes THEN Executed(ctx, Instr) ELSE ctx
    /\ cycles' = cycles + (IF Executes THEN 1 ELSE 0)
    /\ before' = Captured
    /\ breakpoints' = IF Reason = "breakpoint" THEN [breakpoints EXCEPT ![Min(Firing)].hits = @ + 1]
                      ELSE breakpoints
    /\ state' = StateFor(Reason)
    /\ UNCHANGED <<file, nextId, watched>>

------------------------------------------------------------------------------
(* The loops of step N, next, run to and finish                               *)
Idle == ~Busy /\ state # "running"
Terminated == state \in {"halted", "error"}

ArrivedBelow ==
    CASE doing.cmd = "step" -> doing.left = 0
      [] doing.cmd = "next" -> ~doing.first /\ Depth(ctx) < doing.depth
      [] doing.cmd = "to" -> ctx.pc = doing.target
      [] doing.cmd = "finish" -> Depth(ctx) < doing.depth
Arrived ==
    CASE doing.cmd = "step" -> doing.left = 0
      [] doing.cmd = "next" -> ~doing.first /\ Depth(ctx) <= doing.depth
      [] doing.cmd = "to" -> ctx.pc = doing.target
      [] doing.cmd = "finish" -> Depth(ctx) < doing.depth
Arrive ==
    /\ Busy /\ Arrived
    /\ doing' = Nothing
    /\ state' = IF doing.cmd \in {"to", "finish"} THEN "stopped" ELSE state
    /\ UNCHANGED <<engine, batch, entries>>

GoesOn == IF doing.cmd = "next" /\ doing.first
          THEN StateFor(Reason) = "stopped" /\ Instr.op = "call" ELSE Reason = "none"
Iterate ==
    /\ Busy /\ ~Arrived
    /\ StepOne
    /\ doing' = IF InProgram(ctx) /\ GoesOn
                THEN [doing EXCEPT !.left = IF doing.cmd = "step" THEN @ - 1 ELSE @, !.first = FALSE]
                ELSE Nothing
    /\ UNCHANGED <<batch, entries>>

(* Running mode: keys are looked at between batches.                          *)
Interrupt ==
    /\ state = "running" /\ batch = 0
    /\ state' = "stopped"
    /\ UNCHANGED <<engine, doing, batch, entries>>
StartBatch ==
    /\ state = "running" /\ batch = 0
    /\ batch' = BatchSize
    /\ UNCHANGED <<engine, state, doing, entries>>
RunBatch ==
    /\ state = "running" /\ batch > 0
    /\ StepOne
    /\ batch' = IF Reason = "none" THEN batch - 1 ELSE 0
    /\ UNCHANGED <<doing, entries>>

------------------------------------------------------------------------------
(* The command lines                                                          *)
Enter(e) == Idle /\ entries < MaxEntries /\ e \in Entries /\ entries' = entries + 1 /\ UNCHANGED batch

Begin(e, goal) == doing' = [goal EXCEPT !.cmd = e.cmd] /\ UNCHANGED <<engine, state>>
Step(e) == /\ Enter(e) /\ e.cmd = "step" /\ ~Terminated
           /\ Begin(e, [Nothing EXCEPT !.left = e.arg])
Next_(e) == /\ Enter(e) /\ e.cmd = "next" /\ ~Terminated
            /\ Begin(e, [Nothing EXCEPT !.depth = Depth(ctx), !.first = TRUE, !.at = ctx.pc])
RunTo(e) == /\ Enter(e) /\ e.cmd = "to" /\ ~Terminated /\ e.arg > ctx.pc
            /\ Begin(e, [Nothing EXCEPT !.target = e.arg])
Finish(e) == /\ Enter(e) /\ e.cmd = "finish" /\ ~Terminated /\ Depth(ctx) > 0
             /\ Begin(e, [Nothing EXCEPT !.depth = Depth(ctx), !.at = Last(ctx.stack)])
Continue(e) == /\ Enter(e) /\ e.cmd = "continue" /\ ~Terminated
               /\ state' = "running" /\ UNCHANGED <<engine, doing>>

Breakpoint(kind, addr, class, cond) ==
    [kind |-> kind, addr |-> addr, class |-> class, condition |-> cond, enabled |-> TRUE, hits |-> 0]
NoCondition == [op |-> "none", value |-> 0]
Added(kind, addr, class, cond) ==
    /\ breakpoints' = [id \in DOMAIN breakpoints \cup {nextId} |->
                          IF id = nextId THEN Breakpoint(kind, addr, class, cond) ELSE breakpoints[id]]
    /\ nextId' = nextId + 1
Edit(e) == Enter(e) /\ UNCHANGED <<file, ctx, watched, cycles, before, state, doing>>
Break(e) == /\ Edit(e) /\ e.cmd = "break" /\ e.arg \in DOMAIN ctx.program
            /\ Added("addr", e.arg, "none", e.condition)
BreakClass(e) == /\ Edit(e) /\ e.cmd = "class"
                 /\ Added("class", 0, e.class, NoCondition)

Without(ids) == breakpoints' = Restrict(breakpoints, DOMAIN breakpoints \ ids) /\ UNCHANGED nextId

(* F9 takes away the first breakpoint at the pc, if there is one.             *)
Toggle(e) ==
    /\ Edit(e) /\ e.cmd = "toggle" /\ ~Terminated
    /\ LET here == {id \in DOMAIN breakpoints : breakpoints[id].kind = "addr" /\ breakpoints[id].addr = ctx.pc}
       IN  IF here = {} THEN Added("addr", ctx.pc, "none", NoCondition) ELSE Without({Min(here)})
Delete(e) == Edit(e) /\ e.cmd = "delete" /\ Without({e.arg})
DeleteAll(e) == Edit(e) /\ e.cmd = "delete all" /\ Without(DOMAIN breakpoints)
Enable(e) == /\ Edit(e) /\ e.cmd \in {"enable", "disable"}
             /\ breakpoints' = [id \in DOMAIN breakpoints |->
                   IF id = e.arg THEN [breakpoints[id] EXCEPT !.enabled = e.cmd = "enable"] ELSE breakpoints[id]]
             /\ UNCHANGED nextId
Watch(e) == /\ Enter(e) /\ e.cmd \in {"watch", "unwatch"}
            /\ watched' = (e.cmd = "watch")
            /\ UNCHANGED <<file, ctx, breakpoints, nextId, cycles, before, state, doing>>

(* DebuggerEngine::restart and exec_load put the program back, without data.  *)
Fresh(f) == /\ file' = f /\ ctx' = Machine(f, 0) /\ cycles' = 0 /\ before' = 0
            /\ state' = "stopped"
            /\ UNCHANGED <<breakpoints, nextId, watched, doing>>
Restart(e) == Enter(e) /\ e.cmd = "restart" /\ Fresh(file)
Load(e) == Enter(e) /\ e.cmd = "load" /\ \E f \in Files : Fresh(f)

Command(e) ==
    \/ Step(e) \/ Next_(e) \/ RunTo(e) \/ Finish(e) \/ Continue(e)
    \/ Break(e) \/ BreakClass(e) \/ Toggle(e) \/ Delete(e) \/ DeleteAll(e) \/ Enable(e)
    \/ Watch(e) \/ Restart(e) \/ Load(e)
Working == Iterate \/ Arrive \/ StartBatch \/ RunBatch
Next == Working \/ Interrupt \/ \E e \in Entries : Command(e)

(* The event loop never waits for a key while something is running.           *)
Spec == Init /\ [][Next]_vars /\ WF_vars(Working)

------------------------------------------------------------------------------
(* No loop runs over a reason to stop: no instruction is executed where an     *)
(* enabled breakpoint fires, one that changes the watched register is the last *)
(* of its command, and a program that has ended runs only when loaded again.   *)
NoStopMissed ==
    [][cycles' > cycles =>
        /\ ~Terminated
        /\ \A id \in DOMAIN breakpoints : ~(Matches(breakpoints[id]) /\ Holds(breakpoints[id].condition))
        /\ watched /\ ctx'.reg # ctx.reg => ~Busy' /\ state' # "running"]_vars

(* A command that gets to its end has got where it says: next from a call to   *)
(* the instruction after it, unless a breakpoint on the call held it there,    *)
(* and finish to the place that the frame returns to.                          *)
ArrivesWhereSaid ==
    [][Arrive =>
        /\ doing.cmd = "next" => /\ ctx.pc = doing.at + 1 \/ (ctx.pc = doing.at /\ Firing # {})
                                 /\ Depth(ctx) = doing.depth
        /\ doing.cmd = "finish" => ctx.pc = doing.at /\ Depth(ctx) = doing.depth - 1]_vars

(* Every command gives the keyboard back.                                      *)
CommandsEnd == (Busy \/ state = "running") ~> Idle
=============================================================================
