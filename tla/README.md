# clearCore in TLA+

clearCore is a MIPS-32 emulator with two interchangeable CPU models (single-cycle
and five-stage pipelined), a GDB remote stub, ELF and hex loaders, and three front
ends (a terminal UI, a Qt Widgets UI and a Qt Quick UI), together with a number-system
converter. This directory holds TLA+ modules translated from its C++ source, the
TLC configurations that check them on small instances, and TLAPS proofs.
`PROJECT.json` is the machine-readable index: which definition models which lines,
what each run checks, one mutant of the code per property, findings and hazards.

Run everything from this directory:

    tlc -workers 2 -config PipelinePrograms.cfg MCPipelinedCpu
    tlapm PipelinedCpuProofs.tla

## 1. The system and its parts

| Component | State | Operations | Talks to | What makes it correct |
|---|---|---|---|---|
| `PipelinedCpu` (`mips/pipelined_cpu.*`, `pipeline_regs.h`) | `pc_`, registers, memory, CP0, four inter-stage registers, the snapshot `ps_` | `step`, `load_program`, `reset`, `set_pc` | owns Memory, RegisterFile, Cp0; uses decoder, ALU, units | commits the same instructions as the single-cycle model, precise traps, halt only when drained, `retired` counts each instruction once, no starvation |
| hazard and forwarding units (`mips/pipeline_units.*`) | none | `source_registers`, `destination_register`, `load_use_hazard`, `forward_operands` | called by the pipeline and by the UIs | operands in EX are the architectural ones |
| `SingleCycleCpu` | `pc_`, registers, memory, CP0, `ctrl_`, `ps_` | same as above | as above | the oracle: trap and ERET are inverse, ERET goes back to the first fault, no `Fault` |
| decoder, ALU, data memory, registers, memory | register file, byte array | pure functions, reads and writes | both CPUs | every word that decodes can be executed; arithmetic of 32 bits agrees with exact integers |
| `Cp0` | Status, Cause, EPC, BadVAddr, `last_exc_` | `raise`, `eret`, `read`, `write`, `reset` | both CPUs, GDB stub | EPC belongs to the first fault while EXL is set |
| `GdbStub` | socket, receive buffer, breakpoint map (address to original word) | packet handlers, `serve`, `handle_continue`, `handle_step` | `IMipsProcessor` through `set_pc`, memory and registers | memory without breakpoints is the program's; a stop reports where the target is; Ctrl-C is never lost |
| ELF and hex loaders | memory and PC of the target | `parse_elf`, `load_elf_into_processor`, `parse_hex_program`, `load_hex_file` | `IMipsProcessor` | an accepted image is in memory exactly; a refused one has a stated effect |
| `SimulatorController` (Qt) | owned CPU, run timer, breakpoint set, statistics, last program | `loadProgram`, `reset`, `stepCycle`, `run`, `stop`, `setExecutionSpeed`, breakpoints | timer callbacks; signals to both Qt front ends | a run stops for each event and tells why once; the state it stops in is shown |
| `QuickSimulator` (Qt Quick) | controller, model, speed, program, and caches QML reads: stages, registers, statistics, status, trace grid | `step`, `runPause`, `reset`, `assembleAndLoad`, `setModel`, `setSpeed`, `toggleBreakpoint` | owns and rebuilds a controller | caches, status and buttons agree with the machine in every order of commands and timer steps |
| `MainWindow` and widgets (Qt Widgets) | controller, run state, panels, schematic, dialogs, status bar; instruction diagram, event log | menu and tool bar commands, message boxes, context menu, `updateCycle` of the widgets | nested event loops below which the timer fires | no run is discarded unasked; what is in view is current; views follow executions and not only addresses |
| terminal UI (`nsc/ui.cpp`) | CPU, program, telemetry, trace, tabs, `auto_run`, `app_live` | buttons and keys, Custom events; a ticker thread | ticker posts events into the screen | a late event steps nothing, telemetry is of this run, leaving joins the ticker |
| assembler front end (`nsc_qt/assembler.cpp`) | none | two passes over lines | editors of both Qt front ends | each word says what its line says, and only what cannot be said is refused |
| converter (`nsc/converter.cpp`, `parse`, `format`) | one value, three fields | `parse_base`, `to_*`, `group_bits`, editing a field | terminal UI | all fields show the number last typed |
| disassembler, Nyxstone backend, trace log | none to speak of | text in, text out | LLVM | text processing, not modelled |

### What is hard

Nothing in the CPUs runs on a second thread. The concurrency is the pipeline's: five
instructions are in flight and one `step()` runs five stages against the registers of
the previous cycle. Which of two writers is forwarded, which of two traps in one cycle
wins, whether a stall, a branch and a jump in one cycle are taken in the right
priority, what a wrong-path fetch leaves behind, when halt may be reported: each needs
a particular alignment of several instructions and is out of reach of example-based
tests. The repository tests it by random differential testing against the
single-cycle model (`tests/mips/pipeline_*_test.cpp`); here the same relation is a
refinement, checked for every program of a shape. The API calls
(`reset`, `load_program`, a debugger's `set_pc`) come between any two cycles. Outside
the CPUs the hard parts are the debugger's session protocol over a shared memory, timer
callbacks against user commands (also below message boxes and menus, which run an event
loop of their own), the terminal UI's second thread, views that are updated only now and
then and recognise an instruction by its address, and loaders that fail half-way. `PROJECT.json` lists
all of these as hazards, each at its line.

## 2. Modules

| Module | Models |
|---|---|
| `MipsIsa` | what both CPUs share: memory, register file, decoder, control word, ALU, effective-address checks, CP0 |
| `MipsExec` | the architectural state `[pc, regs, mem, cp0]` and, as operators on it, `step` (`SingleCycleCpu::step`), `load_program` and `reset` |
| `MipsArch` | the architecture as a specification over `MipsExec`: a caller that steps, loads, resets and moves the PC. This is the abstract specification |
| `SingleCycleCpu` | `MipsArch` plus what the single-cycle object shows (`ctrl_`, `ps_`, `StepResult`) |
| `PipelinedCpu` | the pipeline, one action per member function, and its refinement mapping to `MipsArch` |
| `MCCode` | the instruction words of the model-checked machine |
| `MCPipelinedCpu`, `MCSingleCycleCpu` | the programs TLC enumerates |
| `GdbStub`, `MCGdbStub` | debugger sessions: the packets that change the target, software breakpoints, `continue`, `step`, detach and reconnection, over a `SingleCycleCpu` (`MipsExec`) |
| `GdbInput`, `MCGdbInput` | the stub's input: framing, checksum and escapes, the bounded receive buffer, Ctrl-C polling, the session loop, against a GDB in all-stop mode |
| `Processor` | a CPU as the front ends see it (`IProcessor`): a step has any result, next PC and snapshot |
| `SimulatorController` | the controller's operations as functions on its state; both Qt front ends apply their slots in the same step, because signals are direct calls on one thread |
| `QuickSimulator`, `MainWindow` | the two Qt front ends over `SimulatorController` |
| `TerminalUi` | the terminal front end over `Processor`: UI thread, ticker thread, event queue, shutdown |
| `PipelineViews` | the views of a running pipeline, composed with `PipelinedCpu`: instruction diagram, event log, sliding tokens, the Quick window's trace grid |
| `Assembler`, `ElfLoader`, `NumberViews` | assembling, loading an ELF image, and the converter with the hex-program parser |
| `Toolchain` | those three side by side, one specification |
| `MCFrontEnds`, `MCQuickSimulator`, `MCMainWindow`, `MCTerminalUi`, `MCToolchain`, `MCPipelineViews` | their instances |
| `MipsIsaProofs` | lemmas: the type of every operator of `MipsIsa` and `MipsExec`, and what one instruction of the oracle does |
| `PipelinedCpuProofs` | the pipeline's types, precise traps, forwarding, halt, retirement, the refinement to `MipsArch`, and on top of them the views of `PipelineViews` |
| `SingleCycleCpuProofs`, `GdbStubProofs` | the theorems about the oracle and about the debugger's breakpoints |
| `FrontEndProofs` | the theorems about the Widgets and the terminal front end |
| `InputProofs` | the theorems about what comes in from outside: `GdbInput` and `Toolchain` |
| `SimulatorControllerProofs` | lemmas: what each operation of the controller keeps and changes |
| `QuickSimulatorProofs` | the theorems about the Quick front end |

### Correspondence

Variables keep the members' names without the trailing underscore. In `PipelinedCpu`
a pipeline register is the struct of `pipeline_regs.h`; a value-initialised struct is
the bubble; `std::optional` fields become records with a Boolean. The action `Step` is
`PipelinedCpu::step` as a whole: its `LET` names the outcomes in the order in which the
code computes them (WB and MEM write through, then EX, hazard detection, ID, IF, the
CP0 updates, the PC). `ID` reads the registers that WB wrote in the same call, and
`IF` fetches from memory after MEM's store, as in the code.
`result` is the return value of the last `step()`, `op` the member function last called.
In `SingleCycleCpu` the variable `fault` is history and not in the code: the trap that set
EXL, until an ERET, an MTC0 to Status or EPC, or a reset ends its handler.

In `GdbStub` an action is a handler of `dispatch()`, or one turn of the loop in
`handle_continue()`, so that an interruption can come between any two instructions.
`breakpoints_` is a function from address to the saved word, and memory is the CPU's own,
with the BREAK words in it. `GdbInput` is the other half of the same object, one action per
character read or per turn of the loop; `rx` holds the bytes between `rx_begin_` and
`rx_end_`, and `sock` what has arrived and `recv()` has not taken. There `c`, `k`/`D` and
"any other packet" are all that is told apart, and whether `cpu_.step()` returns `Ok` is a
choice; in `GdbStub` a packet is its parsed content. GDB and the
connection are external: bytes arrive in pieces of any size and in order, Ctrl-C and acks
at any time, packets only while the target is stopped (all-stop mode, as the comment in
`poll_input()` presumes), and the connection may close at any moment.

The callers are part of the model: `load_program` is called on a CPU that has
just been constructed or reset, which is what every front end and loader does, and
`set_pc` by the GDB stub, on the EPC, after a step that returned `Exception`.

**Front ends.** The machine below them is a record: the loaded program, the number of
cycles and the PC stand for registers and memory, and `Outcomes` is what a step may do.
A cache holds the cycle it was filled in, so "current" is an equality. In
`SimulatorController` an operation is a function from the controller before to the one
after; `event` is the one signal a step may send, `emitsUpdate` the throttle of a
full-speed run. `MainWindow` has a variable for the dialog that is open: user commands wait for it,
the run timer does not. `TerminalUi` splits the ticker's loop at every point where the UI
thread can come between: the test of `app_live`, the sleep, the decision to post, the
post. `speed_ms` and `anim_frame` are read and written without synchronisation
(`ui.cpp:1045`); they only set the pace, which the model leaves open.

**Views.** `PipelineViews` runs `PipelinedCpu` itself and numbers executions (`serial`,
`in_flight` and every `who` are not in the code): the widgets see only addresses and words,
the properties compare with the numbers. `history` has what fired in each cycle shown since
the log was cleared, and for which execution; the log's own key (`key`) knows only the event and the word. A full-speed run hides cycles from the views
(`Throttle`), at most one burst of them per behaviour (`MaxBursts`).

**Toolchain.** Text is abstracted to tokens: a line is a label, a mnemonic and operand
tokens; a number is its digits; a file is its headers. What is kept is each width, range,
sign and order of checks. `Assembler` is compared with what a token says (`Says`),
`ElfLoader` with what the file says (`Expected`), which are written independently of the code's passes.
A loop of the code that collects something is a recursive function over the turns it has
made (`collected`, `programs`, `written`), so that it can be reasoned about turn by turn.

Data that no property tells apart is abstract. The word layout is the constant
`Fields`, a function from words to decoded fields, so the model is independent of bit
positions; the word width, the byte size and the memory size are constants (`WordBits`,
`ByteSize`, `MemBytes`); `BitAnd`, `Shl` and `Shr` are constant operators. Arithmetic
wraps at `WordSize`.

## 3. What TLC checks

The checked machine has an 8-bit word made of four 2-bit bytes, a 4-bit immediate and
16-byte jump regions, so address wrap-around, sign extension, unaligned and unmapped
addresses and signed overflow all happen with little memory: 32 bytes, data words at 0 and 4,
four program words at 8 to 20, a jump to itself at 24 and a handler word at 28. A run
starts from every program of four words over each of its alphabets; the four words fill the
pipeline behind the entry point, and branches, jumps and a handler make longer
executions out of them. Four in-flight instructions is also the depth at
which all interactions between stages are possible. The exception vector is on a
program word in `pipeline_programs`, so that what follows a trap is any word of the
alphabet, and at 192 in `pipeline_live` (unmapped, as 0x80000180 is in the default memory
of the code: every trap is followed by a fetch fault at the vector). `single_cycle` runs every
program of four words at 8 to 20 over two alphabets (signed arithmetic with a branch; loads,
stores, traps and MTC0; `ERET` in both) with a jump behind them and the vector at 12, so the
words from there on are a handler, which may trap itself any number of times before its `ERET`.

| Run | Question | Properties |
|---|---|---|
| `pipeline_programs` | all programs over seven alphabets: forwarding and stalls, branches and jumps fed by loads, traps, CP0 and `ERET` in every order | `TrapIsPrecise`, `OperandsAreArchitectural`, `HaltIsFinal`, `ImplementsArch` |
| `pipeline_live` | `reset`, `load_program` and a debugger's `set_pc` between any two cycles, and a caller that keeps stepping | `TypeOK`, `ShownDestinationIsWritten`, `ImplementsArch`, `RetiresEachOnce`, `CommitsForever`, `HaltIsReported` |
| `single_cycle` | the oracle by itself: nested traps, ERET, and arithmetic at the ends of the word | `CpuInv`, `EretUndoesTrap`, `ArithmeticIsExact`, `EretReturnsToFirstFault` |
| `gdb_session` | any sequence of packets, instructions and sessions on one program | `TypeOK`, `BreakpointsLeaveProgram`, `DebuggerIsTransparent` |
| `gdb_input` | packets, acks, Ctrl-C and damaged packets cut at any byte, a full buffer, closing and reconnecting | `InputInv`, `PacketsInOrder`, `StopsForAReason`, `InterruptAnswered` |
| `quick_simulator` | timer steps against every command of the Quick window | `QuickInv`, `ShownIsCurrent`, `RunStopsAtBreakpoints`, `RunIsShown` |
| `main_window` | the same for the Widgets window, with dialogs, hidden panels and banners | `WindowInv`, `DialogsDoAsAsked`, `StopIsShown` |
| `terminal_ui` | two threads, late events, tabs, leaving | `UiInv`, `OnlyControlsMove`, `AutoRunAdvances`, `ExitEnds` |
| `toolchain` | operands, headers and digits at both sides of every limit; one load after another | `AssemblerIsExact`, `LoaderInv`, `ConverterFollowsEdits`, `HexProgramIsWhole` |
| `pipeline_views` | views of stalls, flushes, traps, short loops, unshown cycles, resets, a cleared log | `RowsAreExecutions`, `LogLosesOnlyRepeats`, `GridTellsTheStage`, `TokensFollowInstructions` |
| `gdb_stop_pc` | violated | `StopIsAtFault` |
| `single_cycle_retired` | violated | `RetiredOnlyWithoutTrap` |

A property that ends in `Inv` or `IsExact`, `OnlyControlsMove`, `DialogsDoAsAsked` and `ConverterFollowsEdits` are
conjunctions of parts that have a name and a comment of their own; `PROJECT.json` has a
mutant of the code for every part.

The debugger runs use the same machine with one program (load, store, a trap and a halt),
breakpoint addresses on code, on data, unaligned and unmapped, and memory writes that hit a
breakpoint or run off the memory. They have no bound on the length of a session: the
state space is finite. `gdb_input` has a buffer of two bytes, packets of at most two
characters and three sends per session: enough for `c`, a burst larger than the buffer and
a Ctrl-C behind it, for two Ctrl-C in one buffer, and for a packet before and after each.
`kInterruptPollSteps` is 3, so the target runs with and without a poll in between.

The Qt runs have two programs, one of which does not fit, two addresses and outcomes with each
result; the cycle counter is modulo `CycleWidth` and every `EmitPeriod`-th cycle of a
full-speed run is shown (5000 in the code), so runs pass several shown and unshown cycles
and the state space is finite without a bound on their length. `MaxTimers` counts banner
timers up to one: a second one clears an already clear bar. In `terminal_ui`
`MaxCycles` bounds a run, `MaxPending` the event queue and `IdlePeriod` and
`TraceLength` are 2 (6 and 8 in the code): `MaxCycles` is larger than both the trace and
`RunBudget`. In `toolchain` there are four immediates, targets and shift amounts inside
sixteen integers, an address space has 8 bytes of which 4 are memory, and there are 32 values: each
range has values on both sides of its ends. Four source lines are enough for a label before
and after its use, alone, at the end and twice. `pipeline_views` has programs of four free
words with a load-use pair, one word twice in a row, a backward branch shorter than the pipeline and a trap, ten
cycles, and a diagram, log and grid that hold six cycles, entries and rows, so that they
overflow.

**Refinement.** `ImplementsArch` maps the pipeline to the architecture at the moment an
instruction leaves EX: `AbsRegs` and `AbsMem` complete what MEM and WB have still to
do, `AbsPc` is the oldest instruction that has not left EX, and a trap pending in MEM is
already taken in `AbsCp0`. Every `step()` is then exactly one oracle instruction or none.
The mapping is stated for `DisciplinedSpec`: programs that do not store into a word
which is already in IF/ID or ID/EX. The repository names that case as a deliberate
difference (`tests/mips/pipeline_precise_exceptions_test.cpp:224`).

**Fairness.** `FairSpec` has weak fairness of `Step` alone: `run()` is a loop around
`step()` and the front ends' run timer repeats it. Nothing is assumed of the other
operations. In the live run stores reach data only: `HaltIsReported` is claimed for
programs that do not rewrite words in flight. `GdbInput` assumes weak fairness of the
stub's own steps (its thread keeps running) and nothing of GDB or of the target's
results. `HaltIsReported` exempts a debugger that moves the PC away.

`QuickFairSpec` assumes that Qt delivers the timeouts of an active timer
(`OnRunTimer`); `UiFairSpec` that the ticker thread runs and that the event loop takes
events from its queue and, once left, goes on to `join()`. Nothing is assumed of the user.

**Deadlock** is checked where the system goes on for ever: `step()` is always possible, a
stub that waits for input has a peer that may close, and a Qt window takes commands. It is
off in `terminal_ui`, which may return, and in `toolchain` and `pipeline_views`, whose
inputs are bounded.

### Findings

* `single_cycle_retired`: a step that traps on its fetch or its decode returns before
  the snapshot is cleared (`single_cycle_cpu.cpp:241`), so `retired` of the previous
  instruction stays set, against `include/isa/processor.h:68-70`. The front ends count
  it again in the CPI.
* `gdb_stop_pc`: after each trap the stub puts the PC on EPC (`gdb_stub.cpp:593`), but EPC
  keeps its value while EXL is set and the stub never clears EXL. The second breakpoint
  of a session is reported at the first one's address, against `wiki/GDB-Stub.md:119`.
  The last part of `DebuggerIsTransparent` is what does hold.

### Divergences without a run

Seen while translating the code, and what the properties do not see. The model does what the
code does; each is left out of the properties named.

* `include/mips/gdb_stub.h:72` says `listen()` also returns when "the CPU halts". The code
  answers a halt with a stop reply and goes on reading packets (`gdb_stub.cpp:580`), as lines
  11-13 of the same header say. `StopsForAReason` follows those lines and the code: a session
  ends only after `k` or `D` or when GDB has gone.
* The event log leaves out an event when the cycle before had the same one for
  the same word (`pipeline_events_widget.cpp:128`). Its comment means an event that goes
  on, but EX never waits and a stall lasts one cycle, so what is left out is always the event of the next
  execution, as in three `addi $t0,$t0,1` in a row; `pipeline_events_widget.h:4-5` says every
  forward, stall, and flush. `LogLosesOnlyRepeats` counts events by execution and states that nothing
  else is missing, which is what `CHANGELOG.md:317` says ("Consecutive-cycle repeats collapse into one entry").
* `Cp0::raise` overwrites BadVAddr for every code (`cp0.cpp:38`); `include/mips/cp0.h:59`
  says only for AdEL and AdES.
* A `JALR` that jumps to itself through its own destination register is reported as `Halt`
  once (`single_cycle_cpu.cpp:282`) and runs on; `wiki/MIPS-CPU-Emulator.md:144` says the PC
  stays there. The pipeline takes only `J` and `JAL` for the idiom.
* `appendTrace()` adds a row whenever IF is valid (`quick_simulator.cpp:353-355`), but in a load-use
  stall the pipeline shows the held instruction as a valid IF: it gets a second row.
  `GridTellsTheStage` holds of both.
* The event of a taken branch names the instruction in MEM
  (`pipeline_events_widget.cpp:113-114`), the schematic's chip too
  (`schematic_datapath_widget.cpp:821-825`); the snapshot has the branch in EX.
* A manual step during a full-speed run is throttled like a timer step, although
  `simulator_controller.cpp:78-80` says a manual step must always emit; and a pause of such
  a run leaves an older cycle on display. `ShownIsCurrent` exempts the paused state.
* `QuickSimulator::setModel` ends a run without `runningChanged`, so the button may still offer Pause,
  and the new controller has no breakpoints. `PauseIsOffered` states the direction that holds.
* The Widgets cycle label keeps its number after a reset or a load (`StopIsShown` exempts
  cycle 0), and the context menu reads its stage's PC after `exec()`
  (`schematic_datapath_widget.cpp:1112`): below a run it toggles another instruction.
* Between two updates that are 2 to 20 cycles apart the diagram goes on, and two executions
  at one address may share a row (`RowsAreExecutions` exempts this; `tests/qt_ui/qt_ui_test.cpp:463`
  intends the diagram to go on).
* The diagram's header promises one row per execution (`pipeline_trace_widget.h:19-21`) without
  that exemption.
* An `M` packet or a store of the program over an inserted breakpoint is undone by the `z0` that puts the
  saved word back (`gdb_stub.cpp:455`, `490`). `Unpatched` takes the saved word for the
  program's, so `BreakpointsLeaveProgram` holds of it.
* The terminal's trace lists a trapped instruction like a committed one, and the unchanged snapshot
  of a step that trapped early once more (`ui.cpp:961`). `UiInv` identifies entries by their
  cycle and does not see either.
* `EditsReachAllFields` speaks of edits that change the value; that an edit to the same value brings the
  fields together is not stated.
* Run to halt in the terminal UI updates the cycle count only (`ui.cpp:1103`), so the CPI
  computed from it (`ui.cpp:1424`) mixes two runs' counts.
* `parse_imm()` wraps a negated hexadecimal number (`nsc_qt/assembler.cpp:44`): `-0xFFFFFFFF` is
  taken as 1, also as a shift amount. `Says` compares numbers modulo the integers, so
  `AssemblerIsExact` holds of it.
* The assembler takes the last of two definitions of a label, and a label that reads as a
  number is never reached. The hex parser joins words on one line. A failed ELF load
  is not undone (`FailedLoadIsContained` states how far it reaches).

## 4. What TLAPS proves

Each theorem is for every value of the constants that satisfies the named assumptions.
TLC evaluates those in every run.

| Module | Theorem | States |
|---|---|---|
| `PipelinedCpuProofs` | `TypeCorrect`, `TrapsArePrecise` | `Spec => []TypeOK`, `Spec => []TrapIsPrecise` |
| | `OperandsCorrect`, `ShownIsWritten` | `Spec => []OperandsAreArchitectural`, `Spec => []ShownDestinationIsWritten` |
| | `HaltFinal`, `EachRetiresOnce` | `DisciplinedSpec => []HaltIsFinal`, `DisciplinedSpec => RetiresEachOnce` |
| | `PipelineImplementsArch` | `DisciplinedSpec => ImplementsArch` |
| | `TokensAreInstructions`, `LogKeepsTheRest` | `ViewsSpec => TokensFollowInstructions`, `[]LogLosesOnlyRepeats` |
| | `GridFollowsInstructions`, `DiagramFollowsExecutions` | `ViewsSpec => []GridTellsTheStage`, `[]RowsAreExecutions` |
| `SingleCycleCpuProofs` | `SingleCycleIsSafe`, `EretReturnsFirst`, `EretReturnsToFault` | `CpuSpec => []CpuInv`, `EretReturnsToFirstFault`, `[]EretUndoesTrap` |
| | `ArithmeticExact` | `CpuSpec => []ArithmeticIsExact` |
| | `SingleCycleImplementsArch` | `CpuSpec` implies the `Spec` of `MipsArch` |
| `GdbStubProofs` | `GdbTypeCorrect`, `ProgramSurvivesBreakpoints`, `DebuggerRunsTheProgram` | `Spec => []TypeOK`, `BreakpointsLeaveProgram`, `DebuggerIsTransparent` |
| `QuickSimulatorProofs` | `QuickIsConsistent`, `QuickShowsTheMachine`, `QuickStopsAtBreakpoints` | `QuickSpec => []QuickInv`, `[]ShownIsCurrent`, `RunStopsAtBreakpoints` |
| `FrontEndProofs` | `WindowIsConsistent`, `DialogsKeepTheirWord`, `StopsAreShown` | `WindowSpec => []WindowInv`, `DialogsDoAsAsked`, `StopIsShown` |
| | `TerminalIsConsistent`, `OnlyControlsMoveMachine` | `UiSpec => []UiInv`, `OnlyControlsMove` |
| `InputProofs` | `NoInterruptIsLost`, `PacketsStayInOrder`, `TargetStopsForAReason` | `Spec => []InputInv`, `[]PacketsInOrder`, `StopsForAReason` |
| | `LoadingIsExact`, `ToolsLoadExactly` | `ElfSpec => []LoaderInv`, `ToolSpec => []LoaderInv` |
| | `AssemblesExactly` | `ToolSpec => []AssemblerIsExact` |
| | `ConverterShowsOneNumber`, `HexProgramsAreWhole` | `ToolSpec => ConverterFollowsEdits`, `HexProgramIsWhole` |

**Assumptions.** A word is four bytes of any size, wide enough for Status.EXL and
Cause.ExcCode (`SizeAssumption`, which also puts the exception vector in the address
space); every word has well-formed fields (`FieldsAssumption`); the bit operators
return words, and conjunction is bounded as it is on binary numbers
(`BitAndAssumption`, `ShiftAssumption`); programs are sequences of words loaded at
aligned addresses (`CallersAssumption`); packets carry words and bytes, and the word a
breakpoint writes decodes as BREAK (`GdbAssumption`). The front ends assume
`ProcessorAssumption`, `SpeedsAssumption`, `EmitPeriodAssumption` and `TerminalAssumption`
(among others, the addresses are whole pages and the cycle counter does not wrap below `MaxCycles`).
In `GdbInput` a frame is `$`, a body and a two-digit check sum with no `#` in its body, what GDB
sends beside them has no `$` (`FramesAssumption`), and `k` and `D` stand alone in
a packet, because the stub does not announce `multiprocess`; buffers and poll periods are
positive (`InputAssumption`). Headers of a file hold
unsigned numbers and as many entries as they say (`FilesAssumption`), and memory is no larger than the
address space (`ElfAssumption`). The views hold at least one cycle, entry and row
(`ViewsAssumption`). A radix is two or more (`NumberAssumption`); immediates,
targets and shift amounts are at most half as many as integers, which are
even in number like the immediates (`AssemblerAssumption`).
The two implementation theorems assume that `reset` is called with `TRUE`, as every caller
does: `MipsArch` has no reset that keeps memory.

**The pipeline.** `TypeOK` is inductive by itself. The work is in the layers under it:
`MipsIsaProofs` has one lemma per operator, `PipelinedCpuProofs` one per stage, and the
step for `Step` puts the stages together in the order of the code.
`TrapIsPrecise` needs that an outcome of EX which raises a trap
carries a bubble and no redirect (`SafeExOutcome`, proved for every instruction class),
that a trap in MEM keeps EX from running, and that either one flushes IF and ID.

What the pipeline computes needs an invariant that ties each inter-stage register to the
architectural state. Its parts were first checked by TLC as invariants on the instances of
`pipeline_programs` and `pipeline_live`:

* `FetchedRight`, `DecodedRight`: IF/ID and ID/EX hold what fetch, decoder and control unit
  return for their PC and word, and ID/EX the registers as the last WB left them. Without
  it nothing connects what EX executes with the program.
* `FollowsPrediction`: what is behind ID/EX is what follows it when EX does not redirect,
  so that a step which does not redirect leaves `AbsPc` on the right instruction.
* `LeftExRight`: the control signals in EX/MEM and MEM/WB are those of their word, so that
  forwarding and WB agree on which register is written and with which value.
* `NoLoadUse`: no load is in MEM when EX reads its register; this is what the load-use stall
  is for, and where forwarding from EX/MEM would be wrong.
* `EmptyAfterReset`: `load_program` finds no instruction in flight.

These six are `PipeInv`, which holds of every program. For programs that do not rewrite words
in flight (`DisciplinedSpec`), `WordsAreCurrent` adds that the words held in IF and ID are
the memory's, and `HaltInv` that a halt in MEM or WB means the architecture has stopped
(`Stopped`), with nothing older left to complete once it is reported. The refinement then goes by the kind of cycle:
a trap pending in MEM, a bubble in EX, an early trap, and each instruction class in EX; in
each, `AbsArch` changes as `step` of the oracle changes it (`StepOutcome`) or not at all.

**The oracle.** `CpuInv` is inductive. `EretUndoesTrap` composes two steps, and uses what
`cp0_raise` does to EPC and Status (`RaisedCp0`). `EretReturnsToFirstFault` speaks of a trap any number of
steps ago, so it needs an invariant: `FaultInv` says that while a first fault is remembered EXL is
set, EPC is its address, and Status is what it was with EXL added. Every instruction
but ERET and MTC0 keeps CP0 unless it traps (`InstrKeepsCp0`, by instruction class), and a trap that
finds EXL set changes neither EPC nor Status. `ArithmeticIsExact` compares results of the ALU, which
wrap, with integers of no width. The remainder of an integer is the only number of a word it
differs from by a multiple of `WordSize` (`RemainderIs`); a sum of two signed words is at most one
such multiple away (`NearbyRemainders`), so `overflow_add` and `overflow_sub`, which look at signs
only, say whether it is one (`AddExact`, `SubExact`). `SingleCycleImplementsArch` and
`PipelineImplementsArch` together say that both backends of `IProcessor` implement one
architecture.

**The debugger.** `Unpatched(m, bp)` is memory with the saved words put back. Insertion and
removal keep it (`InsertUnpatched`, `RemoveUnpatched`), because a word is exactly its four
bytes (`BytesOfWord`, `ReadBytes`), breakpoints are aligned and so never overlap, and no BREAK
is saved over an address that has one. Execution is compared on two memories: an instruction
that neither is nor touches a breakpoint has the same outcome on memory and on its unpatched
copy (`SameInstr`, by instruction class), and its store commutes with unpatching (`StoreUnpatched`).
`TypeOK`, which keeps the table on aligned mapped words, is the invariant used.

**The front ends.** For `QuickSimulator` the inductive
invariant is `QuickInv /\ ShownIsCurrent`; a step of the controller by the user and one by
the timer are one lemma (`SteppedPreserves`), whose core is that an update is
only withheld while the timer stays on. For `MainWindow` it is `WindowInv` with three
parts (checked by TLC on the instance of `main_window`): `CleanIsDrawn`, a register panel
without a dirty mark has drawn what it holds, so that showing it again need not redraw;
`SchematicIsBehind`, the schematic has the machine's cycle only with its snapshot, although
the counter is modular, because a withheld step never ends on a multiple of the period;
`MenuIsAtStage`, nothing moves below the menu of a stopped machine.
`SimulatorControllerProofs` has one lemma per operation, used by both. For `TerminalUi` the invariant
is `UiInv` with the trace a sequence (checked by TLC first); it splits into what is said of the machine
(`MachineOK`) and of the threads (`ThreadsOK`), which share only `auto_run` and the queue.

**The views.** They are proved on top of `TypeOK` and `PipeInv`, over every program, reset and
throttling. `NumbersInv` says that the numbers given to executions name the registers,
that an older instruction has a smaller one, and that what was last shown is what
the registers hold unless a cycle was throttled since. `LogInv` says what `recent_` is: for every event and word seen, the
last cycle it was seen in, so that the widget's test against it drops an entry exactly when
the event repeats one of the cycle before; and of the others it says which the list still holds, by the order
in which they were logged, since what a full list drops is always what comes first. `GridInv` follows each row of the grid by its cells, shifted
by the front of the list. `RowsInv` is the hard one, because `updateCycle` finds rows by
address: unless cycles were throttled since, every instruction in a
register has a row in which its last cell is its stage's, and of the rows at its address that ended
there it is the one seen last; so `rowOf` finds it, and each of the five
placements of a cycle leaves the other four alone.

**The input.** `InputIInv` adds to `InputInv` that the instructions since the last poll are
counted (`PollsAreCounted`). `PacketInv` decomposes the bytes that are in the buffer, in the
socket and not yet arrived: the rest of the packet being read, whatever state the
reader is in, then the frames that are not dispatched yet, in the order in which they were sent,
with acks and Ctrl-C between them, and nothing begins behind a `c` that is pending. A step of the
reader takes one byte off the front, and the decomposition of the rest follows.
`LoaderIInv` says which byte of which segment is loaded next, and that memory is what it was,
overwritten by the bytes before that one in order.

**The tools.** A loop is a recursive function, which exists (`LoopExists`) and is the only one
(`LoopsAgree`); what it computes is proved by induction on its turns, in the form that the set of
turns where it fails has no smallest member (`Climb`). On these stand: the digits of a
number read back as the number (`WrittenReads`), also padded and grouped (`DigitsPadded`,
`GroupedBits`), with `ConverterInv`; a line more continues the program before it (`HexInv`); as many
lines are collected before a label as have code (`CodeCounted`), so its index is the
one of the first instruction behind it (`LabelsPoint`). For operands, `parse_imm()`
differs from the number meant by nothing or the size of an integer (`ParsedImmediate`), only one
number in range does so (`SameNumber`), and no operand of a format overwrites what another has put (`Formats`,
`PutPlaces`, `PlacedStays`).

**Only model-checked.** All liveness (`CommitsForever`, `HaltIsReported`,
`InterruptAnswered`, `RunIsShown`, `AutoRunAdvances`, `ExitEnds`): fairness and ENABLED are
outside the proof system. Every other property of a passing run is stated by a theorem. The two
properties of the violated runs are not claimed.

## 5. What is left out

In the CPUs: the cycle counter, HI and LO (no decoded instruction reaches them),
`last_written()`, the trace log, the raw words and register numbers of the display
snapshot. `reset(false)` on a pipeline with a store in EX/MEM drops the store; no caller
passes `false`, so the runs pass `TRUE` only; the theorems hold for both, the two
implementation theorems excepted.
`Memory::write_half` has no caller. In the GDB stub: packets that only read, the text of
replies, the signal number of a stop reply, and a `send()` that fails. In the front ends: painting, layout,
docking, preferences, colours, tooltips, the mouse effects of the terminal's display tabs,
`memoryRows()` and the lists of examples, which only read. In the toolchain: the wording of
errors, white space and comments, and the identification fields of an ELF header beyond
right or wrong. The disassembler formats text, Nyxstone wraps LLVM's assembler and the trace
log writes lines; none of them has state that another part reads.

## 6. Plan

1. **Done.** The CPUs, CP0 and the debug stub with their runs; `TypeCorrect`,
   `TrapsArePrecise`.
2. **Done.** The controller, the three front ends, the views of the pipeline, assembler,
   loaders and converter with their runs; the theorems about the Quick front end.
3. **Done.** Proofs: the pipeline's invariant and its refinement to the architecture, the
   oracle, the debugger's breakpoints and transparency, the Widgets and the terminal
   front end.
4. **Done.** Proofs: the views of the pipeline, the debugger's input, the loaders, the
   converter and the assembler.
5. **Done.** A revision: what an ERET returns to and exact arithmetic, checked and proved, in place
   of the single guard on EPC; what the event log may lose, counted by execution.
6. The stub over a `PipelinedCpu` (a step is a cycle; breakpoints, memory writes and
   `set_pc` meet instructions in flight), and an abstract debugger whose breakpoints are a
   set beside the memory, which `GdbStub` implements.
