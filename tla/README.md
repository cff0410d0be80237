# Verification of CQAM

CQAM is a virtual machine for hybrid classical/quantum programs, written in Rust. A
program in CQAM assembly is parsed, loaded and interpreted by `cqam-run` on top of the
VM in `cqam-vm`. Quantum instructions go through a `QuantumBackend`: a simulator
(`cqam-sim`), or a circuit that is compiled (`cqam-micro`) and sent to a quantum computer
(`cqam-qpu*`). This directory holds TLA+ models of the parts where order, sharing, failure
or a chain of translations matters, the TLC configurations that check them, and proofs that
TLAPS checks.

All source paths below are relative to the repository's root.

## 1. Inventory

| Component | State it keeps | Operations | Hard behaviour | Module |
|---|---|---|---|---|
| SPMD barrier (`cqam-vm/src/thread_pool.rs`) | `arrived`, `generation`, `elected`, `resolved_leader` under a mutex, a condvar | `ThreadBarrier::wait` | reuse by fast threads while slow ones have not returned; one leader cell for all generations; spurious wakeups | `ThreadBarrier` |
| SPMD shared memory (same file) | live `data`, committed `snapshot`, base and size | load live/snapshot, store, `commit_snapshot`, `write_back` | which copy a thread reads, when the snapshot moves, u16 bounds | `SharedMemory` |
| Parallel region (`hybrid.rs`, `fork.rs`) | shared memory, shared quantum file, barrier, join handles, per-thread flags | HFORK, HMERGE, HATMS, HATME, the worker loop | all interleavings of N threads; threads that fail, halt, or miss a barrier; spawn failures | `Spmd` |
| Executor, interrupts, PSW, runner loop (`executor.rs`, `isr.rs`, `psw.rs`, `runner.rs`) | pc, registers, flags, traps, handler table, call stack, cycle count | the classical instructions, SETIV, RETI, dispatch | overflow and flags that outlive the instruction that set them; several traps at once; one stack for calls and handlers; panics | `Processor` |
| Quantum registers (`qop.rs`) and simulation back end (`cqam-sim/src/backend.rs`) | Q registers, QMEM, Bell budget, table of states | QPREP, QKERNEL, QOBSERVE, QLOAD, QSTORE ... | ownership of handles on error paths and across HFORK/HMERGE | `QuantumRegisters` |
| Circuit back end (`circuit_backend.rs`) | handles as lists of wires, the buffer of operations, the wire counter | the quantum instructions, flush | wires renumbered while handles are live; deferred measurement; clones | `CircuitBackend` |
| Shot mode (`cqam-run/src/runner.rs`) | snapshot, accumulators, program exit flush | first pass, sampling, replay | replay from a stale snapshot on a back end that has moved on; effects made twice | `ShotMode` |
| Core, assembler, binary, loader (`cqam-core`, `cqam-as`, `loader.rs`) | image, labels, sections | parse, encode, write, load, patch, disassemble | three notations of 130 instructions; stripping; partial files; textual substitution | `InstructionSet`, `AssemblyText`, `Toolchain` |
| Circuit compiler and cache (`cqam-micro`) | compile cache, layout | decompose, route, map, optimise, cache, rebind | five translations in a row; cache key ignores parameters; LRU limit | `Circuits`, `Decompose`, `Synthesis`, `CircuitCache`, `CompilationPipeline`, `CompilationMeaning` |
| Device formats (`cqam-qpu-ibm`: convert, transpile, qasm; `cqam-qpu-ionq`: circuit) | none | conversion | the same circuit must reach both services | `DeviceFormats` |
| IBM and IonQ clients, mock (`cqam-qpu`, `-ibm`, `-ionq`) | remaining budget, estimator, attempt, deadline | connect, calibrate, submit, retry, poll, collect | lost requests and answers, deadlines, duplicate jobs, empty batches | `QpuJobs` |
| Numerics (`cqam-sim`: state vector, kernels) | amplitudes | gates and kernels | floating point: modelled exactly over a finite field | `Amplitudes`, `Kernels` |
| Debugger (`cqam-dbg`) | breakpoints, watchpoints, batches, state of the application | step, next, finish, continue, edit, restart, load | stops in the middle of a command or a batch; recursion; edits while running | `Debugger` |
| Code generation (`cqam-codegen`, `cqam2qasm`) | used registers | emit QASM | text | none |

Interactions. The runner owns thread 0's `ExecutionContext` and `ForkManager` and calls
`execute_instruction`; HFORK clones the context for each worker, which runs
`run_spmd_thread` on an OS thread of its own. The threads share only `SharedMemory`
(an RwLock per copy), `SharedQuantumFile` and `ThreadBarrier`, all behind `Arc`. HMERGE joins the
workers and copies shared state back. On a QPU, QOBSERVE hands the buffer of `CircuitBackend` to the
client, which compiles it with `CompilationPipeline::synthesize`, converts it to the service's format and
samples it in jobs. Nothing is persisted, so there is no crash recovery; the one partial failure on disk is
an image of which only a prefix was written.

What can go wrong in each component is listed at its line in `PROJECT.json` under `hazards`, with
the properties that would notice.

## 2. Modules

| Module | What it is |
|---|---|
| `Rendezvous` | abstract specification: what a reusable barrier with a leader promises |
| `ThreadBarrier` | `ThreadBarrier::wait` at mutex/condvar granularity; implements `Rendezvous` |
| `SharedMemory` | operators of the shared region: bounds, loads, write-back |
| `Spmd` | the parallel region: N threads, one program; uses `Rendezvous` and `SharedMemory` |
| `Processor` | thread 0 alone: the classical instructions, flags, calls, traps and handlers |
| `QuantumState` | quantum states reduced to their size and an abstract value |
| `QuantumCells` | abstract specification: registers and QMEM slots as cells that hold states, no handles |
| `QuantumRegisters` | the quantum instructions, HFORK and HMERGE on handles and the back end's table; implements `QuantumCells` |
| `CircuitBackend` | the quantum instructions on wires and a buffered circuit |
| `ShotMode` | `run_with_shots`: the first pass, sampling, replay, flush |
| `InstructionSet` | the instructions and their 32-bit words; encoder and decoder with tables of their own |
| `AssemblyText` | the parser's and the disassembler's syntax of every mnemonic |
| `Toolchain` | parse, assemble, write, load, disassemble; extends the two above |
| `Circuits` | the circuits that the compiler reads and writes |
| `Amplitudes`, `Kernels` | what a circuit means: state vectors, gates, kernels |
| `Decompose` | kernels and preparations as standard gates |
| `Synthesis` | routing, native mapping, the peephole passes |
| `DeviceFormats` | what IBM and IonQ are sent |
| `CircuitCache` | the compile cache: lookup, insertion, eviction |
| `CacheCalls` | abstract specification: what the pipeline is to its cache |
| `CompilationPipeline` | the compiler with its cache; composes `Circuits` to `CacheCalls` except `Amplitudes` and `Kernels`; implements `CacheCalls` |
| `CompilationMeaning` | the statement that a compiled circuit means its program; adds `Kernels` to the pipeline |
| `QpuJobs` | a client and the service it talks to |
| `Debugger` | the engine and the commands and event loop above it |
| `SpmdProofs`, `QuantumRegistersProofs`, `ProgramProofs`, `QpuJobsProofs`, `CircuitBackendProofs`, `ShotModeProofs`, `DebuggerProofs`, `CompilationProofs` | the theorems |
| `MC...` | instances for TLC |

The definitions named `...NoReset`, `...Ignored`, `...Late` and so on, marked as faulty, are
not part of a specification. They are bugs a maintainer could plausibly write; the properties
are checked to notice them.

### ThreadBarrier

`arrived`, `generation`, `elected`, `resolvedLeader` are the fields of `BarrierState`;
`myGen` is the local `my_generation`, `isLeader` the returned `BarrierWaitResult`.
Everything done while the mutex is held is one step: `ArriveAndBlock` runs from `lock()`
to the first `cvar.wait`, `ArriveLast` is the last arriver's whole call, `Return` and
`WaitAgain` are the two outcomes of a wakeup. A sleeper is woken by `notify_all` or by
`SpuriousWakeup`. `ElectedWaits` and `NoLostWakeup` are the reasons why nobody
is left behind; `OneLeader` is the comment on `resolved_leader` made precise: counting what
every thread was told, or will be told when it gets to run, each generation
has one leader. `NotOverwrittenBeforeRead` says why one cell for all generations is enough.

`Rendezvous` states the contract without counter or condvar: a thread enters its
round, leaves only when all have entered, and is the leader iff it came first. The
refinement mapping takes a blocked thread's round from `myGen` and anybody else's from
`generation`.

### Spmd

`ctx[t]` is the part of `ExecutionContext` that the region touches; `run[t]` says where thread
`t` is in its loop or inside an instruction that takes several steps. An
instruction is one step, except where the code takes a lock or starts a thread: the arrival at and the
return from a barrier, `commit_snapshot`, each `spawn`, and the join. That is sound because
nothing else an instruction touches is shared; a shared load or store takes one lock once.

| Code | Definitions |
|---|---|
| runner loop, worker loop | `Retire`, `Fault`, `Limited`, `Dispatched` |
| `execute_instruction`, skip mode | `At`, `Executes`, `Skip`, `Step` |
| `cmem_load`, `cmem_store` | `Load`, `Store`, `StoreShared` |
| HFORK | `HForkRefused`, `HForkSingle`, `HForkSetup`, `HForkSpawn`, `HForkSpawnFails`, `HForkDone` |
| HMERGE | `HMerge`, `HMergeJoined` |
| HATMS | `HAtmSAlone`, `HAtmSArrive`, `HAtmSReturn` |
| HATME | `HAtmEAlone`, `HAtmECommit`, `HAtmEArrive`, `HAtmEReturn` |

Data is abstract: integers are `0 .. ValueSpace-1` with wrap-around, an ITID/JIF pair is one
instruction `JTID`, quantum registers are only occupied or not. `Sectioned(p)` says that the atomic sections
of `p` are well formed in its text; `MCSpmd` assumes, and TLC checks, that the disciplined programs are. `in_atomic_section` and
`psw.af` are always assigned together and are one field. Registered handlers are in `Processor`.

### Processor

`m` is the machine: pc, integer registers of `Width` bits, the flags ZF, NF, OF, PF and the quantum
ones, the pending traps, the handler table `isr` and the call stack. A step is one turn of the runner's loop: an instruction,
then `Dispatch`, which answers the pending traps in the code's order (arithmetic, then quantum, then synchronisation). Results that do not fit wrap around and set OF as the code
sets it, which differs from one instruction to another; a division by zero raises the trap, a division of the
smallest word by -1 panics in a build with overflow checks. A label that the program does not have (`None`) is met when a jump is taken, or by SETIV at
once: `UnknownLabel` ends the run with CALL's return address already pushed and PF already written; a jump that is not taken never looks it up. Floats, complex numbers and memories have no values: the instruction sets the flags
in every way that a result can. `sites` (what each entry of the stack interrupted) and `compared` (the operands
of the last ICMP, until a flag changes) are history variables.

### QuantumRegisters

`vm[t]` is what an instruction of thread `t` can reach: the Q registers `q`, QMEM `mem`, the
`SimulationBackend`'s table `states` with its `next` handle, the Bell budget `pairs`, and the flags
`qf` and `forked`. `Alloc`, `Release`, `SetQreg`, `TakeQreg`, `Consumed` and `Filled` are the calls
that move handles; each instruction is one action made of them, error returns included:

| Code | Action |
|---|---|
| QPREP, QPREPR, QPREPN, QENCODE, QMIXED | `QPrep` |
| QKERNEL, QKERNELF, QKERNELZ, QROT, QCNOT, QCZ, QSWAP, QCUSTOM | `QKernel` |
| QPTRACE | `QPtrace` |
| QHADM, QFLIP, QPHASE (`execute_masked_gate_backend`) | `QMasked` |
| QMEAS, QRESET, QPREPS and QPREPSM | `QMeas`, `QReset`, `QPreps` (`Rebuild`) |
| QOBSERVE, QTENSOR, QXCH, QLOAD, QSTORE | `QObserve`, `QTensor`, `QXch`, `QLoad`, `QStore` |
| HFORK, HMERGE | `HFork`, `HMerge` |

HFORK's spawning and HMERGE's join are one step each here, because a thread shares no handle table with
another: each worker has a clone of the back end. Their interleavings are in `Spmd`. A spawn that fails in the
middle of HFORK ends the run and is in `Spmd` only. `overwritten` is a history variable that no action reads.

A back end never gives out a handle twice, so a handle whose state is gone stays dangling for ever. `HandlesLive` says
that no error path leaves one, `SingleOwner` that no two places share one, `NothingLeaks` that none is forgotten;
together with `QuantumCells` they say that handles cannot be noticed by a program. The one leak that the code
has is in the statement of `NothingLeaks`: the registers thread 0 filled in the region, which HMERGE overwrites.

### CircuitBackend

The same instructions on the other back end. A handle stands for a list of wires (`wires`); an instruction appends to
`buffer`, and only QOBSERVE submits it and starts a new one from wire 0. `fresh` and `evolved` are the sets of the code;
`story[h]` is the history of everything the program did to the qubits of handle `h`, which the circuit
submitted must repeat. The code keeps the old mapping of a handle after QMEAS, QRESET and QPREPS and lets a
kernel's destination share the source's wires, so two registers may share wires; and a
register that survives a submission keeps the numbers of wires that are given out again. The properties are stated for `clean` runs, in which
neither has happened, and that restriction is part of what they say. Observation compares what the
circuit does with `story`.

### ShotMode

`ctx` is the context, `states` the back end's table, `section` the snapshot made where QF rises, `post` the context after the first
pass, `acc` the accumulators. `StepMain` is a turn of the main loop, with the sampling of a section that needs no
replay; `StepReplay` a turn of the replay loop; `Restore` the end of the replays; `Flush` the program's exit. The back end is not put
back for a replay (a `halt` leaves the pc where it is, as in the code): `RegistersSurvive` says when that is harmless, and the sections that begin with a register in use (`crossing`), for
which it is not, are outside it.

### Toolchain

`InstructionSet` has one table of fields for the instruction, one for the encoder and one for the decoder, each translated from its own
source file; `AssemblyText` one for the parser and one for the formatter. A field that one side puts elsewhere
shows up as a difference. `Toolchain` follows a source: `ParseSource` (directives, label references, substitution),
`Assemble` with or without labels, `OpenFile` and `WriteSection` one section at a time, `WriteFails` at any of them,
`Load` and `Disassemble` of what is there. Tokens are already split; a label's
name is a sequence of numbers, so that one may begin another. What a source may be is `SourcesAssumption`: any number of lines
of any tokens (`IsLine`), any directives (`IsDirective`). Places in a program are sets of positions: `LabelPlaces`, `StepPlaces`, how many of them come before
one (`UpTo`) and which is the n-th (`Nth`). `MaxLabels` is what the label counter, a u16, can count; word addresses wrap.

Three properties have an exception, and the proofs showed that they need it; each exception is a disagreement of section 6. `JumpsKeepTarget` leaves out branches that are `Misled`: `patch_target` knows five of the
branches only, and one that it does not know keeps its target "@N", which the runner takes for a label if the source has one spelled that
way. `ListingReparses` leaves out instructions whose register is `BeyondFile`: `parse_reg` takes any file's letter, so that
R12 is accepted where an H register is wanted, the word of HREDUCE has room for it, and the disassembler prints H12, which is rejected.
`DefinedReferencesResolve` leaves out references that are `Shadowed`: data labels are replaced before shared ones, so a data label that begins a
shared label's name takes the beginning of its references. The longest label comes first only among the labels of one section.

### The compiler

`Decompose` has one operator for each case of the code: ladders with dirty and clean ancillas, relative-phase Toffolis, diagonal
phases by parity networks, permutations by shifts or transpositions, controlled versions of gates. `Synthesis` routes along
breadth-first shortest paths, maps to `rz, sx, x, cx` and runs the three peephole passes to their
fixed point in the code's order. `DeviceFormats` is what the two clients make of it. `CompilationPipeline` is the state machine: `SynthesizeCached`,
`SynthesizeCompiled`, `Clone`. All of this is written with recursive functions, so that it can be proved about; only
`Amplitudes` and `Kernels`, which compute matrices, have RECURSIVE operators, and only `CompilationMeaning` uses them.

A panic of the compiler (a ladder on more than three wires without its ancilla, a permutation table with a number beyond its end, a route over a
qubit to which no wire belongs) is, like an error, a circuit that has failed: nothing is sent and nothing is cached.

The cache is a module of its own. `Hit`, `Miss` and `Insert` are the two outcomes of `get` and `insert`; `served` and `turn` are history.
`CompilationPipeline` uses them as `synthesize` does. `CacheCalls` is any caller: it looks up and inserts in any order, and keeps nothing but
the circuits it is allowed to. `ImplementsCache` says that the pipeline is such a caller and that the circuits are whole and native: a
compilation that fails at any stage leaves nothing behind. What the cache holds is then proved for every caller (section 4).

The meaning of a circuit is computed, not assumed: `Kernels` applies the kernel as `cqam-sim` does, and every gate
as its matrix, on state vectors whose amplitudes are elements of the field with 40961 elements. The field
has a 128th root of unity, so angles that are multiples of pi/64, square roots of two and one half are exact,
and an identity of amplitudes holds in the field if it holds in the complex numbers. The converse fails only
for a coincidence modulo 40961 in all amplitudes at once.

### QpuJobs

`client` is the program counter, the request in flight and the numbers of `submit`; `device`, `job`, `paid` belong
to the service. A request is `Serve`d or not, and its answer `Deliver`ed or lost, refused, unreadable; retries,
`Poll`, `Sleep` (any nap in `Naps`), the last look after the deadline, `CollectIbm`, `CollectIonq` and the mock's loop are
actions of their own. `paid` counts the shots of jobs the client knows of and `honest` says that every result so far had the
shots that were asked for. Counts are reduced to how many there are and whether they name one outcome.

### Debugger

`doing` is the loop of the command in progress and `batch` the batch of the event loop: one `step_one` is one action, and
the user's `Interrupt` and edits may come between batches. `ctx` has a pc, a stack, one register, one cell of memory.
`breakpoints` is the table by id, ids are not used again. Watchpoints are one register's. `before` is the register of the engine's
`prev_snapshot`: it outlives the step, a step that goes on takes it anew (`Captured`), and the watchpoints compare with it (`WatchTriggered`).

## 3. Runs

| Run | Instance | What it shows |
|---|---|---|
| `barrier` | 4 callers, 3 generations | one leader for each generation, every call returns, `Rendezvous` is implemented |
| `spmd` | 3 threads and 5 disciplined programs, or 1 thread and 64 | no lost or repeated update, over the run (`Counts`) and over each region (`NoUpdateLost`), the snapshot is frozen while it is read, every program finishes; the `thread_count = 1` shortcuts give the same memory |
| `spmd_any` | 3 threads, 2055 generated programs | atomic sections exclude each other and worker failures surface, whatever the program does |
| `registers` | 1 and 2 threads, 2 registers, 1 slot, 3 handles per back end, 2 Bell pairs, any sequence of instructions | no dangling, shared or leaked handle; `QuantumCells` is implemented |
| `interrupts` | words of 3 bits, 3499 programs, undefined labels among them, interrupts on or off | no trap outlives its turn, handlers and subroutines resume behind what they interrupted, JGT/JLE are signed comparisons |
| `jobs` | 3 providers, budgets 0, 1, 3, minimum batches 1, 2, 1 retry | what is paid for stays within the budget, timeouts are justified, submit ends |
| `toolchain` | 2149 sources: each mnemonic with boundary operands, each program of up to 3 lines over 2 labels, data layouts | what is loaded is what was written, jumps keep their target, references resolve, listings parse |
| `compile` | 288 programs on up to 5 wires, 3 devices, a cache of 2 | compiled circuits mean the program, use coupled pairs only, are the same for both services; the cache is LRU and `CacheCalls` is implemented |
| `wires` | 2 registers, 1 slot, 4 operations in a circuit, any sequence of instructions | registers do not share wires; the circuit submitted is what the program did |
| `shots` | 1280 programs of up to 7 instructions, 3 shots | effects once, shots counted once, registers survive |
| `debug` | 5 programs, 4 commands | no stop is missed, commands stop where they say, every command ends |
| `cache_hit` | 4 programs of one or two structures | violated: a hit gives the new program another one's angles |

`cache_hit` checks one property, which states what the repository says, and TLC's trace is what the code does (section 6).

Some properties of the `pass` runs leave a case out by a condition of their own, because in that case the code does not do what the property
says: `clean` (`SeparateWires`, `ObservedWhole`), `crossing` (`RegistersSurvive`, `EveryShotCounted`), `Misled` (`JumpsKeepTarget`), `BeyondFile`
(`ListingReparses`), `Shadowed` (`DefinedReferencesResolve`), IBM's empty results (`Ends`). Each is a disagreement of
section 6 or a hazard of `PROJECT.json` with a note, and the property says nothing about it.

Bounds and why they are enough.

* `barrier`: a straggler is at most one generation behind (`CountExact`), so the third generation repeats the second. Four
  callers: one elected, one last, and two that may be a straggler and a re-entering thread at once.
* `spmd`, `spmd_any`: `MaxRounds = 8` exceeds the barriers of any program in the sets that does not loop; those that do stop
  at the bound. `N = 3` gives a leader, a follower that waits and one that is still outside. `spmd_any` takes every sequence of three instructions from
  `Ops` and `ErrorOps` in and before a section. `MaxCycles` is small only there, where the limit must also strike in the
  middle of a region. `AddrSpace` and `ValueSpace` hold the shared cell, a private cell and all the counts.
* `registers`: two registers for a source and a destination, a slot, and two Bell pairs to store a state and load it again. Three
  handles are a state put away by HFORK, one made inside the region and one more. `QubitLimit = 2` lets a product both
  fit and be refused. Registers are symmetric; the run has no liveness property.
* `interrupts`: three bits hold every sign and every overflow of a subtraction, and all 64 pairs of operands are compared. `MaxCycles = 9`
  lets a handler be entered from a handler and both return.
* `jobs`: a budget of 0, of less than a batch, and of several batches; one retry is one loss survived and one that
  is not; the deadline is longer than one nap and shorter than two of the longest.
* `toolchain`: each field takes the two ends of its range and a neighbour beyond it; small address
  limits (`MaxAddr16 = 1`, `MaxAddr24 = 2`) let both be exceeded by a program of three lines. Two labels give a forward, a
  backward and an undefined branch.
* `compile`: up to four wires every kernel takes each of its cases (one, two, three and more controls; with and
  without a clean ancilla). The devices are a full graph, a line, on which each distant pair needs a swap, and a star. Each program starts from
  a product state without symmetries, so a permuted or conjugated result differs.
* `wires`: preparations of up to 2 qubits and circuits of up to 3 qubits let a product hold a register that is observed and one that is not.
* `shots`: three shots are the first pass, a replay and a replay that starts from what a replay left.
* `debug`: four commands are two edits, a command and what follows it; `BatchSize = 3` ends a batch inside a loop and
  inside a call.

Deadlock is checked in `barrier` and `spmd`. It is not in `spmd_any`, whose programs miss barriers on
purpose and then really hang, nor in the others, where programs, sessions and calls end.

Fairness. Every thread of `Spmd` runs on an OS thread of its own (thread 0 on the caller's), so a thread whose
next step is enabled eventually takes it: weak fairness per thread. In `ThreadBarrier` a caller that can
arrive does and a woken thread gets the mutex; no spurious wakeup is ever required. Rust's `Mutex` promises
no fairness among contenders, but weak fairness on the critical sections needs only that each contender is
eventually served, and the number of contenders is finite with each critical section finite. In `QpuJobs` the client's thread runs and
each request ends somehow, because the HTTP client has a timeout; nothing is assumed of the job, which may stay in the queue for ever.
`Ends` names the one way in which submit does not end: an IBM service that keeps returning empty results, since
the loop subtracts the shots returned and not those asked for. In `Debugger` the event loop goes on by itself while something is
running, and the user need not type.

## 4. Proofs

Eight modules of proofs, for all values of the constants. Each gives the inductive invariant its own name
and its parts theirs; a lemma for each action shows what the action does to each part it can disturb.

`SpmdProofs` proves of `ThreadBarrier`, for every finite non-empty set of callers and every bound, `TypeCorrect`, `CounterExact`,
`ElectedIsGathering`, `WakeupsNotLost`, `LeaderUnique`, that the leader
cell is not overwritten too early (`LeaderReadBeforeOverwritten`), and that the barrier implements `Rendezvous`
(`BarrierImplementsRendezvous`). The inductive invariant joins the type invariant, the exact count, the election and the
leader's uniqueness: none is inductive alone. For instance, that the last arriver resolves the right leader needs that
`elected` is waiting, which needs that `arrived` counts the gathering threads, which needs that no straggler is still behind when a
generation completes; this last fact holds because a generation completes only when all callers have arrived in it, and a
straggler is a caller that has not. Assumptions: the callers are a finite non-empty set, `None` is not a caller, `MaxGen` is a natural number.

`SpmdProofs` proves for every program, number of threads, region and value space:

* `SpmdTypeCorrect`: `TypeOK`. No shared load, store or commit is out of bounds and HMERGE writes back a whole CMEM image.
  The lemmas on `SharedMemory` (`SumIsAddr`, `OffsetType`, ...) carry it.
* `AtomicSectionsExclude`: `ExclusiveSection`. It is not inductive: the elected thread gets its section while it is still asleep
  in the barrier, when the last thread arrives. `Holds` counts the section from that moment and `OneHolder` says that at most one
  thread holds it. The rest of `SectionInv` says why nobody else is in a section at that moment: the barrier knows who waits
  (`InsideIsWaiting`), nobody is more than a round ahead (`Lockstep`), a round has one first thread (`OneFirst`) and, once all have
  entered it, has been left by the last (`LastHasPassed`); `Flags` and `Alone` tie the flags of the contexts to the region.
* `WorkerErrorsSurface`: `FaultsSurface`, from `MergedInv`: while thread 0 runs with `merged` set, every worker has exited or
  never started.
* `ReadersSeeOneMemory`: `SnapshotFrozen`, for the programs with `Sectioned(prog)`, which is a hypothesis on the text alone. The snapshot
  moves at HATME, while the others sleep in the barrier or are in the section; that the latter is so in the *text* is what has to be carried along.
  `PlaceInv` does: a thread is inside a section of the text iff its flag says so, and iff the rounds it has
  been through are odd in number (`Placed`). Two threads in step are then on the same side of every bound, whatever they jumped over. For other
  programs the property is false, and `spmd_any` does not check it.
* `UpdatesAreNotLost`: `NoUpdateLost`. If each section of the text adds one to a shared cell (`Counting(prog, a)`), the cell that HMERGE
  brings home has grown by the number of sections thread 0 went through, in any program, with loops and failing threads too. The measure is at
  hand: inside the region thread 0's own image still has the value the cell began with, and a thread that has been through r rounds has
  seen r div 2 sections. `CountInv` says what the live cell is by where the section stands: before it (`Settled`), with its leader elected
  and asleep (`Chosen`), while the leader works (`Leads`, with what the accumulator holds in `Due`), and when the leader has committed and others are
  still to pass the barrier (`Closed`; it claims nothing once a thread has ended, since the barrier then lets nobody pass any more). That an elected leader exists in each round is `FirstExists`, without which a section could
  close with nobody's update; that every worker reads and writes the shared cell and not its own copy is `Shares`. It stands on `SectionInv`
  and `PlaceInv`; `JoinInv` gives the join. It was checked with TLC first, on these programs and on others with faults and failing spawns.

Assumptions: `NAssumption`, `SizesAssumption`, `SharedAssumption` (the shared cells fit the address space), and
`ProgramsAssumption` (a program is a sequence of instructions with operands in range).

`QuantumRegistersProofs` proves `RegistersTypeCorrect`, `NoHandleDangles`, `OwnersAreUnique` and `NoStateLeaks` for every number of
threads, registers, slots and handles, every qubit limit and every Bell budget. `OwnInv` adds to the three properties that a
handle not yet given out has no state (`Fresh`: a new handle then has no owner), and that the shared file is empty
outside a region (`FileEmpty`: HFORK would otherwise lose what it holds). The lemmas are in three layers: what a change of
registers, memory and table does to ownership (`OwnedFill`, `OwnedTake`, ...), the same for machines and the operators that
instructions are made of (`GoodPut`, ...), and one lemma for every instruction. Assumptions: `SizesAssumption`,
`QubitLimitAssumption`, `NoneAssumption`.

The last part of the module proves on top of it that `QuantumRegisters` implements `QuantumCells` (`RegistersImplementCells`), under the
same assumptions. A step of the detailed specification changes one thread's machine, and `Becomes(t, n)` says that the cells seen
afterwards are those of the machine `n` for thread `t` and the old ones for the others. `Replaced`, `Exchanged` and `Moved` say what a single machine
shows after each operator that moves handles; that no other cell changes is where the ownership of `OwnInv` is
needed, because two places with one handle would change together. Then there is one lemma for each instruction, HFORK is a
`Fork`, HMERGE a `Merge`, and the end of a worker a `Vanish`.

`CircuitBackendProofs` proves `SeparateWires` (`WiresSeparate`) for every number of registers, slots, qubits and operations. The invariant `Inv`
adds to it that every handle held has wires in the table, that handles in the table are below the next one, and
that a handle is in one place (`OnePlace`), even when the rule of the clean runs has been broken: an observation that empties the
only register makes the run clean again, and it does so because no second place holds that handle. All instructions are of two kinds, and a lemma does each: `NewHandle`,
where a register gets a new handle whose wires are new or belonged to registers that the instruction empties, and `Fewer`, where handles
move or are released.

On top of it `ObservationsWhole` proves `ObservedWhole`, that the circuit submitted is what the program did to the register observed. `StoryInv` says
of every register, between observations, that its story is the set of operations in the buffer that touch its wires
(`Touched`), that no operation names a wire not given out yet (`Below`), and that outside a section nothing is held. An
operation on a register's wires reaches no other story because wires are separate, which is where `Inv` comes in; new wires are
above all operations, so a new register's story is empty. Assumption: `MaxPrepAssumption`.

`ProgramProofs` is about a program on its way to the machine and in it. Of `Processor` it proves, for every width of a word, number of registers, program and cycle limit, `ProcessorTypeCorrect`, `NoTrapOutlivesItsTurn`,
`StackResumesBehind` and `BranchesAreSigned`. The inductive invariant is the type invariant, no trap between
turns, every stack entry behind its site, and `HistoryOK`: ZF, NF and OF hold what the difference of the
operands in `compared` left, as long as nothing has touched them. The first two need each other: a return from a handler clears the traps, which loses
nothing only because none is pending. That signed comparison needs NF and OF together is an arithmetic lemma on wrapped
differences; `Dispatch` is a chain of conditionals that one lemma (`RaisedDispatch`) resolves for a single trap.

Of `InstructionSet` it proves `EncodingRoundTrips`, which says of every mnemonic and all operands that fit (`Given`) that `Decode` gives back
what `Encode` was given. TLC checks the ends of each field's range (`toolchain`); the theorem is for every number in between and
all combinations. A word is seen from each field as the part above it, a multiple of the field's place that ends in the field's
value (`High`), and the part below it, which is smaller than the place (`Low`); both are carried from field to field. What
the tables must satisfy for it, fields in order, disjoint and read where they were written, is `FormatsAssumption`. It is
no assumption about the code: it is a statement about the tables alone that TLC evaluates in `toolchain`. The only part of the tables that
depends on a constant is the limit of an address, which `AddressAssumption` keeps within its field.

Of `Toolchain` it proves, for every set of sources of any length, all four properties of the run `toolchain`: `BinaryIsTheProgram`
(`LoadsWhatWasWritten`), `BranchesKeepTarget` (`JumpsKeepTarget`), `ListingsReparse` (`ListingReparses`) and `ReferencesResolve`
(`DefinedReferencesResolve`). The inductive invariant is `Whole`, one part for each stage: `ProgramWhole` (what the parser returned has only proper
instructions of the table), `AssemblyWhole` (the result is the assembly of that program), `DiskWhole` (what is on disk, and what is still to be
written, make up one image) and `ReadersWhole` (what was loaded or listed is what is read from that disk). It only says where things come from; the
content is in the lemmas, in the order a program takes:

* `ParseFine`, `ParsedProper` and the lemmas before them: each mnemonic's syntax, aliases included, yields operands that fit their fields or nothing.
* `WordsDecoded`: the k-th word of the image decodes to the k-th instruction kept, with an address for its target. The assembler's count
  of label words and the positions in the image are related by counting places (`UpToStep`, `PlaceIsNth`).
* `LoadedBranches`: an address, stripped or not, has as many instructions before it as the label has in the source; where the loader or the
  runner goes by name it meets the same label, because the names of the decoded labels differ (`LabelNamesApart`), from the debug section or made up.
* `SectionsInOrder`: sections on disk are a beginning of the six in their order, so a reader that finds one has found all before it.
* `FormatReparses`: printing and parsing are inverse up to what execution reads of an instruction (`Effective`).
* `SectionSpelled`: the labels of a section that was parsed are spelled as sequences, whatever its directives. This is an induction over the
  directives, along `ParseSection`'s recursive function: `Least` (the smallest counterexample, from `WFMin`) takes the place of
  the induction theorem, which the provers cannot instantiate. That the longest label is taken then leaves the reference's own label alone (`OwnLabelTaken`).

Assumptions: `SourcesAssumption`, `LabelsAssumption`, `AddressAssumption`, and the statements about tables `FormatsAssumption`,
`TablesAssumption` and `PatchableAssumption`, all of which TLC evaluates in `toolchain`.

`QpuJobsProofs` proves, for every set of budgets and batch sizes, every number of retries, deadline and latency, `JobsTypeCorrect`,
`BudgetIsKept` and `TimeoutsAreJustified`. `PaidWithinBudget` is not inductive: between submission and collection the
batch has been paid for and not yet taken off what remains. `Covered` accounts for it by where the client is: at the head of the
loop `paid + remaining <= budget`, inside a job `paid + remaining <= budget + batch` with `batch <= remaining`. A timeout is
justified because the status read after the deadline was true when the service answered (`Fresh`: an answer that
says "queued" is at most as old as it has travelled). `AnswersServed`, `BodyRead` and `JobKnown` say what
an answer on its way may hold.

The module's second part is about `CacheCalls`, for every capacity above 0, all keys and templates: `CacheIsLru` (`KeepsTheRecent`) and
`CacheIsCurrent` (`FindsTheLatest`). `CacheInv` relates the list to the history: entries are in the order of the turns in which
they were last served (`InOrder`), each has the template stored last (`Latest`), and a key that was served and is not in the list left a
full one and is older than every entry (`OldAreOut`). With `PipelineCallsTheCache` (below) both hold of the pipeline. Assumption: `CapacityAssumption`.

`ShotModeProofs` proves, for every number of shots, every finite set of registers and every program, `TypesOK`, `ReplaysSpareRegisters`
(`RegistersSurvive`), `ShotsCountedOnce` (`EveryShotCounted`) and `EcallsMadeOnce` (`EcallsOnce`). Replays change the same context and the same table as
the first pass, so the invariant is about both at once. `SurvivalInv`: at the start of a section no register is in use (unless `crossing`), the
handles of the first pass are sound, and the replay shares none of them (`Apart`), so that what it releases is its own. `SectionInv`: a
replay runs between the section's first instruction and the observation that ended the first pass. `CountInv`: during shot k an
accumulator of a sampled register has k counts, any other none. `EcallInv`: what was printed is what lies before the
place reached (`Place`), which is the first pass's during a replay. Assumptions: `ShotsAssumption`, `RegistersAssumption`, `ProgramsAssumption`.

`DebuggerProofs` proves, for all files, sessions and cycle limits, `TypesOK`, `NoStopIsMissed` (`NoStopMissed`) and `ArrivesThere` (`ArrivesWhereSaid`).
The first follows a turn of the loop: a stop reason is looked for before each step and the loop leaves by it; that a change is compared with
the step's own snapshot is a fact of the step, whatever `before` held. The
second needs `GoalInv`: the frame that `finish` waits for is on the stack or has just been popped into the pc (`Frame`), and
`next` is at its call, or inside it with the address behind it on the stack. Edits and interrupts do not touch the stack. Assumptions:
`FilesAssumption`, `EntriesAssumption`.

`CompilationProofs` proves of the compiler, for all programs, devices, cache capacities and orders of calls, `CxOnCouplings`
(`OnlyCoupledPairs`), `ServicesAgree` (`BothServicesRunTheSame`) and that the pipeline implements `CacheCalls`
(`PipelineCallsTheCache`: `ImplementsCache`). None of the three is inductive, since a hit sends a circuit that was compiled some calls ago and changes its
angles. The inductive invariant is `PipelineInv`: the last answer and every circuit in the cache is in `CircuitsFor(device)`, made of native
operations on distinct wires of its own and, if it is as wide as the device, with each cx on a coupling. It is the set to carry because every
later stage, `rebind` included, has to stay in it. It was checked as an invariant of the run `compile` before it was proved. The stages come in their order:

* `DecompositionIsStandard`: each case of `decompose` gives `StandardOps`, gates of one or two distinct wires of the program or its ancilla, or fails. That wires
  do not meet is what has to be carried through the ladders (which borrow wires that are neither controls nor target), the carries of a shift, the
  bits of a transposition (`BitWires`) and the wires behind a control (`TailWires`).
* `RoutingIsCoupled`: `PathIs` says that walking towards what is one closer gives a path of couplings (`CloserExists`, from the uniqueness of
  distances); swapping along it keeps the layout a permutation (`AfterSwapsIs`) and brings the two wires onto its last coupling
  (`SwapsCarry`). The layouts, which the model puts together by halves, are followed through them by `PlacesAre`.
  `PairsCount` is the shortcut: a device of n qubits with n(n-1)/2 couplings has them all, so a circuit as wide as the device needs no routing there.
* `NativeIs`: each standard gate becomes native gates on the same wires, and its cx on the same pair, in one direction or the other.
* `OptimizerKeepsClosed`: the passes write nothing but rz and x where a gate was, so a set of operations that has these (`Closed`) keeps
  its circuits. The rounds end since each but the last shortens the circuit (`SettledExists`).
* `ReboundIs`: writing angles into rz leaves the circuit in its set.
* `ConcatTwins`, `SameGatesSent`: the two formats are compared operation by operation and the comparison is carried through the concatenations.

Recursive functions are used through their equations. The library's theorems about them take operators as parameters, so the module begins with its own for
functions: `NatRecursion` (a function defined by recursion on numbers exists and has its values) and `ConcatIsRow` (`Concat`, which
joins by halves, is the joining one by one). Assumptions: `ProgramsAssumption`, for `cqam-vm/src/qop.rs:445,612,649` refuses equal qubits and the back end
gives registers wires of their own (`WiresSeparate`), and `DevicesAssumption`, for `ConnectivityGraph` keeps its edges normalized
(`cqam-qpu/src/traits.rs:124-135`). The work corrected the model where it said less than the code: the two panics of `Decompose` above, cycles of a table that is not a
permutation, and the order of the cases of a controlled kernel.

Only model-checked: liveness (`EveryCallReturns`, `Completes`, `Ends`, `CommandsEnd`, the fair half of the refinements), which is beyond
the prover. `Counts` says what each disciplined program computes over all its regions, and with one thread as with several; its proof would be one for each
program, and what it says of one region is proved (`UpdatesAreNotLost`). `AnswersMeanTheProgram`
equates amplitudes: it is a computation in a field along RECURSIVE operators, not a consequence of a few facts.

## 5. Plan

Done: the parallel region, registers, interrupts, circuit wires, shot mode, jobs, compiler, toolchain and debugger. Left, in
order of what matters most:

1. Theorems: that a peephole step and a native gate keep a circuit's meaning, with matrices as functions.
2. One model of a program on a QPU: `CircuitBackend`, `CompilationPipeline` and `QpuJobs` joined at QOBSERVE, with a failed submission.
3. `CircuitBackend` under HFORK with several workers; shot mode inside a region.
4. Calibration-weighted routing when the code gets one, HCEXEC, the resource tracker's totals, `poll_results`.
5. The code generator, against `Kernels` as the meaning of what it prints.

## 6. Disagreements found

Between the code and what the repository says about it. One is a `violation` run: `cache_hit`. A hit in the compile cache writes the
new program's angles into the first rotations of the compiled circuit (`cqam-micro/src/pipeline.rs:47-49`), whereas decomposition and native
mapping have introduced rotations of their own; `cqam-core/src/circuit_ir.rs:205` says that circuits with one key differ only in
resolved values. Two programs with different Grover targets have the same key and one gets the other's circuit.

The others were met while modelling: the modules do what the code does, and no property contradicts them.

Parallel region:

* HMERGE inside a section publishes uncommitted stores (`cqam-vm/src/thread_pool.rs:131`); `reference/isa.md:468` promises the committed state.
* Quantum instructions in an atomic section are executed (`cqam-vm/src/executor.rs:727`); `reference/spec.md:398` and `reference/isa.md:359`
  promise an error, which is declared (`cqam-core/src/error.rs:93`) and never made.
* HFORK looks at the QF flag only (`cqam-vm/src/hybrid.rs:50`); `reference/spec.md:346` promises a check of every register.
* A worker's arithmetic trap is never dispatched (`hybrid.rs:567`); `reference/spec.md:152` says it halts.
* A barrier that one thread misses hangs the others (`hybrid.rs:504`); `reference/isa.md:360` lists an error for it, which nothing makes either.
* HFORK clones QMEM and the back end for every worker (`hybrid.rs:84`); `reference/isa.md:186` promises that a state is in one location.
* The runner passes (base, end) where (base, size) is meant (`cqam-run/src/runner.rs:412`, `cqam-vm/src/context.rs:90`).

Processor:

* Without a handler an arithmetic trap halts; the comment at `cqam-vm/src/isr.rs:50` says that it continues with a default value.
* The quantum trap's handler never runs when the Bell budget is exhausted: the instruction returns an error that ends the run
  (`reference/isa.md:184`, `reference/spec.md:70`).
* IDIV of the smallest integer by -1 panics in a build with overflow checks.
* HREDUCE and IEQ leave OF as it was, so a JGT after them depends on an older instruction.

Compiler:

* The `Fourier` kernel (`cqam-sim/src/kernels/fourier.rs:14-16`) is documented as the quantum Fourier transform; its factored form differs from it.
* Routing is skipped on a device larger than the program when the device has enough couplings in total
  (`cqam-micro/src/routing.rs:22`), whichever pairs they join.
* Adding a control to a gate sequence drops global phases of the gates, which under control are relative ones (`cqam-micro/src/decompose/controlled.rs:3-5`).
* The native form of Ry does not have Ry's matrix (`cqam-micro/src/native_map.rs:151`). A product preparation with complex amplitudes is prepared by their
  magnitudes.
* The IBM calibration reader takes no `cz` entries, and a gate without an entry makes the estimated fidelity 0.

Clients and shots:

* `cqam-qpu-ibm/src/rest.rs:533` says that polling gives up after 600 seconds by default; the constant is 1800.
* Sections are said to be independently sampled N times (`cqam-run/src/runner.rs:551`). On the fast path the distribution is resampled, and
  registers of one section lose their correlation. The replay of a section that uses up a register filled before it fails, because the
  context is put back (`runner.rs:641`) and the back end is not.
* A kernel whose destination differs from its source leaves the source's mapping behind (`cqam-sim/src/circuit_backend.rs:319`), so both
  registers name the same wires and the gate is on both; `cqam-core/src/quantum_backend.rs:170` says that the source is unchanged.
* A register that survives a submission on a QPU keeps the numbers of its wires, which are given out again: the comment at
  `cqam-sim/src/circuit_backend.rs:529` knows of such handles and sees to it only that the circuit has room for them. Its state is gone as well.

Toolchain and debugger:

* A disassembled branch has an address that the assembler does not take as a label.
* The 65536th label overflows a u16 (`cqam-as/src/assembler.rs:150`).
* The loader patches no JMPFN, JGT or JLE (`cqam-run/src/loader.rs:94`), so a label that is spelled like an address takes
  such a branch away; `loader.rs:42` says that jump targets are resolved.
* A register of another file is accepted where an operand's file has fewer registers (`cqam-core/src/parser/helpers.rs:85`), and its listing is
  refused; `cqam-as/src/disassembler.rs:87` says that the parser can round-trip every instruction.
* A data label that begins a shared label's name spoils the references to it (`cqam-core/src/parser/text.rs:1218`);
  `parser/sections.rs:339,349` say that all shared labels are replaced, without partial substitution.
* Restart does not put the `.data` cells back (`cqam-dbg/src/engine/mod.rs:286`), so a second run may differ from the first; `mod.rs:283` says that it
  resets the VM to its initial state. Load does not read `.shared`.
* An enabled breakpoint at the current pc fires again on every step.

## 7. Not modelled

* Floating point, density matrices and noise channels; the numbers of the Bayesian estimate (only when it may converge).
* The code generator and `cqam2qasm`: text without a meaning in this repository to compare it with.
* HCEXEC, the resource tracker, reports and configuration files; ECALL's reads of CMEM.
* Compiler: controlled Fourier, Init and Diffuse-on-one-wire kernels, a bare Ry, and complex preparations, for which the statement that a circuit means its
  program is false or has no reference (section 6); the Init kernel on anything but the ground state; repeated Grover targets;
  depth and other metrics; resets and measurements in the middle; the Qiskit transpiler; calibration numbers. Routing through a qubit beyond the program's wires and a cache of
  capacity 0 panic and are not among the programs and devices.
* Device formats: a rotation that is not a finite number, which the IonQ converter refuses (`cqam-qpu-ionq/src/circuit.rs:55-62`; angles are
  integers here), and couplings listed in one direction only: `cqam-qpu-ibm/src/transpile.rs:86-98` adds the pairs that are listed, and `Takes` is for
  devices that list both directions.
* A barrier among the gates that get a control (`cqam-micro/src/decompose/controlled.rs:39-46` lets it pass): no kernel that is controlled makes one.
* `QpuJobs`: `poll_results`, JSON, a minimum batch of 0.
* Assembler: include files, comments, splitting of lines into tokens.
* `ShotMode`: workers; QMEM, and so QLOAD as the first instruction of a section (`runner.rs:527`): a section is opened by a preparation;
  a distribution whose total is zero. Replays that diverge from the first pass are modelled, and `EveryShotCounted` is not claimed of them.
* Debugger: parsing, panes, printing, quit; watchpoints on other files than R; interrupts.
* Editor support and examples.
