---------------------- MODULE SimulatorControllerProofs ----------------------
(***************************************************************************)
(* What each operation of the controller keeps and changes, for every set  *)
(* of programs, addresses and step outcomes and every counter width.  Both *)
(* front ends' proofs rest on these lemmas.                                *)
(***************************************************************************)
EXTENDS SimulatorController, TLAPS

(* The counters stay within their width. *)
LEMMA BumpType ==
  ASSUME NEW n \in Cycle, NEW b \in BOOLEAN
  PROVE  bump(n, b) \in Cycle
<1>1. n \in Int /\ CycleWidth \in Nat \ {0} /\ n >= 0 /\ n < CycleWidth
  BY ProcessorAssumption DEF Cycle
<1>2. (n + 1) % CycleWidth \in 0 .. CycleWidth - 1
  BY <1>1
<1> QED
  BY <1>2 DEF bump, Cycle

(* The power-on machine and the empty statistics are well-typed. *)
LEMMA PoweredOnType ==
  /\ PoweredOn \in Machine
  /\ NoStatistics \in Statistics
  /\ NoPipelineState \in PipelineState
<1>1. 0 \in Cycle
  BY ProcessorAssumption DEF Cycle
<1>2. NoPipelineState \in PipelineState
  BY DEF NoPipelineState, PipelineState
<1>3. PoweredOn \in Machine
  BY <1>1, <1>2, ProcessorAssumption DEF PoweredOn, Machine
<1>4. NoStatistics \in Statistics
  BY <1>1 DEF NoStatistics, Statistics
<1> QED
  BY <1>2, <1>3, <1>4

(* A newly loaded machine is at its first cycle, with the program if that  *)
(* one fits.                                                               *)
LEMMA LoadedMachine ==
  ASSUME NEW p
  PROVE  LET m == load_program(PoweredOn, p) IN
         /\ m \in Machine
         /\ m.program = (IF p \in Fits THEN p ELSE NoProgram)
         /\ m.cycle = 0 /\ m.ps = NoPipelineState
<1> DEFINE m == load_program(PoweredOn, p)
<1>1. CASE p \in Fits
  <2>1. m = [program |-> p, cycle |-> 0, pc |-> 0, ps |-> NoPipelineState]
    BY <1>1 DEF load_program, PoweredOn
  <2>2. 0 \in Cycle /\ 0 \in Pcs /\ NoPipelineState \in PipelineState
    BY ProcessorAssumption, PoweredOnType DEF Cycle
  <2> QED
    BY <1>1, <2>1, <2>2 DEF Machine
<1>2. CASE p \notin Fits
  <2>1. m = PoweredOn
    BY <1>2 DEF load_program
  <2> QED
    BY <1>2, <2>1, PoweredOnType DEF PoweredOn
<1> QED
  BY <1>1, <1>2

(* step() keeps the machine well-typed, and its count and the statistics'  *)
(* move together.                                                          *)
LEMMA StepType ==
  ASSUME NEW m \in Machine, NEW s \in Statistics, NEW o \in Outcomes
  PROVE  /\ step(m, o) \in Machine
         /\ step(m, o).program = m.program
         /\ step(m, o).pc = o.pc
         /\ accumulateStats(s, o.ps) \in Statistics
         /\ s.cycles_executed = m.cycle =>
              accumulateStats(s, o.ps).cycles_executed = step(m, o).cycle
<1>1. o.pc \in Pcs /\ o.ps \in PipelineState
  BY ProcessorAssumption
<1>2. /\ o.ps.retired \in BOOLEAN /\ o.ps.load_stall \in BOOLEAN
      /\ o.ps.branch_flush \in BOOLEAN /\ o.ps.forwards \in BOOLEAN
  BY <1>1 DEF PipelineState
<1>3. m.cycle \in Cycle /\ bump(m.cycle, TRUE) \in Cycle
  BY BumpType DEF Machine
<1>4. bump(m.cycle, TRUE) = (m.cycle + 1) % CycleWidth
  BY DEF bump
<1>9. step(m, o) = [m EXCEPT !.cycle = bump(m.cycle, TRUE), !.pc = o.pc, !.ps = o.ps]
  BY <1>4, Zenon DEF step
<1>5. step(m, o) \in Machine
  BY <1>1, <1>3, <1>9 DEF Machine
<1>6. accumulateStats(s, o.ps) \in Statistics
  BY <1>2, BumpType DEF accumulateStats, Statistics
<1>7. accumulateStats(s, o.ps).cycles_executed = bump(s.cycles_executed, TRUE)
  BY Zenon DEF accumulateStats
<1>8. step(m, o).program = m.program /\ step(m, o).pc = o.pc
        /\ step(m, o).cycle = bump(m.cycle, TRUE)
  BY <1>9 DEF Machine
<1> QED
  BY <1>5, <1>6, <1>7, <1>8

(* What the operations assign keeps the controller well-typed. *)
LEMMA ControllerUpdate ==
  ASSUME NEW c \in Controller, NEW m \in Machine, NEW s \in Statistics, NEW a \in BOOLEAN,
         NEW l \in Fits \cup {NoProgram}
  PROVE  /\ [c EXCEPT !.cpu = m, !.stats = s, !.active = a] \in Controller
         /\ [c EXCEPT !.active = a, !.cpu = m, !.loaded = l, !.stats = s] \in Controller
         /\ [c EXCEPT !.active = a, !.stats = s, !.cpu = m] \in Controller
<1> DEFINE L == Fits \cup {NoProgram}
           B == SUBSET Pcs
           I == 0 .. 500
<1>1. Controller = [cpu : Machine, loaded : L, stats : Statistics, breakpoints : B,
                    active : BOOLEAN, interval : I]
  BY DEF Controller
<1>2. l \in L
  OBVIOUS
<1> HIDE DEF L, B, I
<1>3. [c EXCEPT !.cpu = m, !.stats = s, !.active = a] \in Controller
  BY <1>1
<1>4. [c EXCEPT !.active = a, !.cpu = m, !.loaded = l, !.stats = s] \in Controller
  BY <1>1, <1>2
<1>5. [c EXCEPT !.active = a, !.stats = s, !.cpu = m] \in Controller
  BY <1>1
<1> QED
  BY <1>3, <1>4, <1>5

(* doStep() changes the machine, the statistics and the timer. *)
LEMMA DoStep ==
  ASSUME NEW c \in Controller, NEW o \in Outcomes
  PROVE  LET d == doStep(c, o) IN
         /\ d \in Controller
         /\ d.cpu = step(c.cpu, o) /\ d.stats = accumulateStats(c.stats, o.ps)
         /\ d.loaded = c.loaded /\ d.breakpoints = c.breakpoints /\ d.interval = c.interval
         /\ d.active <=> c.active /\ event(c, o) = "none"
<1> DEFINE d == doStep(c, o)
<1>1. c.cpu \in Machine /\ c.stats \in Statistics
  BY DEF Controller
<1>2. step(c.cpu, o) \in Machine /\ accumulateStats(c.stats, o.ps) \in Statistics
  BY <1>1, StepType
<1> DEFINE a == c.active /\ event(c, o) = "none"
<1>3. d = [c EXCEPT !.cpu = step(c.cpu, o), !.stats = accumulateStats(c.stats, o.ps),
                    !.active = a]
  BY Zenon DEF doStep
<1>4. a \in BOOLEAN
  OBVIOUS
<1> HIDE DEF a, d
<1>5. d \in Controller
  BY <1>2, <1>3, <1>4, ControllerUpdate
<1>6. d.cpu = step(c.cpu, o) /\ d.stats = accumulateStats(c.stats, o.ps) /\ d.active = a
  BY <1>3 DEF Controller
<1>7. d.loaded = c.loaded /\ d.breakpoints = c.breakpoints /\ d.interval = c.interval
  BY <1>3 DEF Controller
<1> QED
  BY <1>5, <1>6, <1>7 DEF a, d

(* The event signal: a run goes on only past an address without a          *)
(* breakpoint.                                                             *)
LEMMA EventType ==
  ASSUME NEW c \in Controller, NEW o \in Outcomes
  PROVE  /\ event(c, o) \in Event
         /\ event(c, o) = "none" => o.pc \notin c.breakpoints
<1>1. o.result \in StepResult
  BY ProcessorAssumption
<1> QED
  BY <1>1 DEF event, Event, StepResult

(* Stopping, loading and resetting. *)
LEMMA StopType ==
  ASSUME NEW c \in Controller
  PROVE  /\ stop(c) \in Controller /\ ~stop(c).active
         /\ run(c) \in Controller /\ run(c).active
         /\ \A d \in {stop(c), run(c)} :
              d.cpu = c.cpu /\ d.stats = c.stats /\ d.loaded = c.loaded
                /\ d.interval = c.interval /\ d.breakpoints = c.breakpoints
  BY DEF stop, run, Controller

LEMMA LoadType ==
  ASSUME NEW c \in Controller, NEW p
  PROVE  LET d == loadProgram(c, p) IN
         /\ d \in Controller /\ ~d.active
         /\ d.cpu = load_program(PoweredOn, p) /\ d.stats = NoStatistics
         /\ d.loaded = d.cpu.program /\ d.interval = c.interval
<1> DEFINE d == loadProgram(c, p)
           m == load_program(PoweredOn, p)
           l == IF p \in Fits THEN p ELSE NoProgram
<1>1. m \in Machine /\ m.program = l /\ NoStatistics \in Statistics
  BY LoadedMachine, PoweredOnType
<1>2. l \in Fits \cup {NoProgram}
  OBVIOUS
<1>3. d = [c EXCEPT !.active = FALSE, !.cpu = m, !.loaded = l, !.stats = NoStatistics]
  BY Zenon DEF loadProgram
<1> HIDE DEF m, l, d
<1>4. d \in Controller
  BY <1>1, <1>2, <1>3, ControllerUpdate, Zenon
<1>5. /\ ~d.active /\ d.cpu = m /\ d.stats = NoStatistics /\ d.loaded = l
      /\ d.interval = c.interval
  BY <1>3 DEF Controller
<1> QED
  BY <1>1, <1>4, <1>5 DEF m, d

LEMMA ResetType ==
  ASSUME NEW c \in Controller
  PROVE  LET d == reset(c) IN
         /\ d \in Controller /\ ~d.active
         /\ d.cpu.program = c.loaded /\ d.loaded = c.loaded
         /\ d.cpu.cycle = 0 /\ d.cpu.ps = NoPipelineState
         /\ d.stats = NoStatistics /\ d.interval = c.interval
<1> DEFINE d == reset(c)
           m == IF c.loaded = NoProgram THEN PoweredOn ELSE load_program(PoweredOn, c.loaded)
<1>1. c.loaded \in Fits \cup {NoProgram} /\ NoProgram \notin Fits
  BY ProcessorAssumption DEF Controller
<1>2. m \in Machine /\ m.program = c.loaded /\ m.cycle = 0 /\ m.ps = NoPipelineState
  <2>1. CASE c.loaded = NoProgram
    BY <2>1, PoweredOnType DEF PoweredOn
  <2>2. CASE c.loaded # NoProgram
    BY <1>1, <2>2, LoadedMachine
  <2> QED
    BY <2>1, <2>2
<1>3. d = [c EXCEPT !.active = FALSE, !.stats = NoStatistics, !.cpu = m]
  BY Zenon DEF reset
<1>4. NoStatistics \in Statistics
  BY PoweredOnType
<1> HIDE DEF m, d
<1>5. d \in Controller
  BY <1>2, <1>3, <1>4, ControllerUpdate, Zenon
<1>6. /\ ~d.active /\ d.cpu = m /\ d.stats = NoStatistics /\ d.loaded = c.loaded
      /\ d.interval = c.interval
  BY <1>3 DEF Controller
<1> QED
  BY <1>2, <1>5, <1>6 DEF d

(* The interval of a speed. *)
LEMMA SpeedType ==
  ASSUME NEW c \in Controller, NEW s \in 0 .. 100
  PROVE  LET d == setExecutionSpeed(c, s) IN
         /\ d \in Controller /\ d.interval = (100 - s) * 5
         /\ d.cpu = c.cpu /\ d.stats = c.stats /\ d.loaded = c.loaded
         /\ d.active = c.active /\ d.breakpoints = c.breakpoints
<1>1. (100 - s) * 5 \in 0 .. 500
  OBVIOUS
<1> QED
  BY <1>1 DEF setExecutionSpeed, Controller

(* Toggling a breakpoint changes nothing else. *)
LEMMA ToggleType ==
  ASSUME NEW c \in Controller, NEW a \in Pcs
  PROVE  LET d == toggleBreakpoint(c, a) IN
         /\ d \in Controller
         /\ d.cpu = c.cpu /\ d.stats = c.stats /\ d.loaded = c.loaded
         /\ d.active = c.active /\ d.interval = c.interval
<1> DEFINE b == IF a \in c.breakpoints THEN c.breakpoints \ {a} ELSE c.breakpoints \cup {a}
<1>1. b \in SUBSET Pcs
  BY DEF Controller
<1>2. toggleBreakpoint(c, a) = [c EXCEPT !.breakpoints = b]
  BY Zenon DEF toggleBreakpoint
<1> HIDE DEF b
<1> QED
  BY <1>1, <1>2 DEF Controller
=============================================================================
