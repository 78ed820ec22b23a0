------------------------- MODULE SimulatorController -------------------------
(***************************************************************************)
(* nsc::qt::SimulatorController: the processor, its breakpoints, the       *)
(* statistics and the run timer that both Qt front ends drive.  Every      *)
(* member runs on the GUI thread and the signals are direct calls, so an   *)
(* operation is a function from the controller before to the controller    *)
(* after, and a front end applies its slots in the same step.              *)
(***************************************************************************)
EXTENDS Processor

CONSTANT EmitPeriod    \* 5000 in the code: at full speed, one cycle in so many is shown
ASSUME EmitPeriodAssumption == EmitPeriod \in Nat \ {0}

Statistics ==
  [cycles_executed : Cycle, instructions_retired : Cycle, data_hazards : Cycle,
   control_hazards : Cycle, forwarding_events : Cycle, stalls : Cycle, flushes : Cycle]
NoStatistics ==
  [cycles_executed |-> 0, instructions_retired |-> 0, data_hazards |-> 0,
   control_hazards |-> 0, forwarding_events |-> 0, stalls |-> 0, flushes |-> 0]

(* loaded is the program reset() puts back; active is the run timer's.     *)
Controller ==
  [cpu : Machine, loaded : Fits \cup {NoProgram}, stats : Statistics,
   breakpoints : SUBSET Pcs, active : BOOLEAN, interval : 0 .. 500]
NewController ==
  [cpu |-> PoweredOn, loaded |-> NoProgram, stats |-> NoStatistics,
   breakpoints |-> {}, active |-> FALSE, interval |-> 0]

-----------------------------------------------------------------------------
stop(c) == [c EXCEPT !.active = FALSE]
run(c) == [c EXCEPT !.active = TRUE]

setExecutionSpeed(c, speed) == [c EXCEPT !.interval = (100 - speed) * 5]

toggleBreakpoint(c, pc) ==
  [c EXCEPT !.breakpoints = IF pc \in @ THEN @ \ {pc} ELSE @ \cup {pc}]

(* Returns TRUE, and loaded is p, exactly when p fits.  Emits              *)
(* pipelineStateChanged.                                                   *)
loadProgram(c, p) ==
  [c EXCEPT !.active = FALSE, !.cpu = load_program(PoweredOn, p),
            !.loaded = IF p \in Fits THEN p ELSE NoProgram,
            !.stats = NoStatistics]

(* Mutant: the program is not put back. *)
resetEmpties(c) ==
  [c EXCEPT !.active = FALSE, !.cpu = PoweredOn, !.stats = NoStatistics]

(* Emits pipelineStateChanged and statisticsUpdated. *)
reset(c) ==
  [c EXCEPT !.active = FALSE, !.stats = NoStatistics,
            !.cpu = IF c.loaded = NoProgram THEN PoweredOn
                    ELSE load_program(PoweredOn, c.loaded)]

(* Mutant: a counter of unbounded width. *)
bumpWide(n, b) == IF b THEN n + 1 ELSE n

bump(n, b) == IF b THEN (n + 1) % CycleWidth ELSE n

accumulateStats(s, ps) ==
  [cycles_executed      |-> bump(s.cycles_executed, TRUE),
   instructions_retired |-> bump(s.instructions_retired, ps.retired),
   data_hazards         |-> bump(s.data_hazards, ps.load_stall),
   control_hazards      |-> bump(s.control_hazards, ps.branch_flush),
   forwarding_events    |-> bump(s.forwarding_events, ps.forwards),
   stalls               |-> bump(s.stalls, ps.load_stall),
   flushes              |-> bump(s.flushes, ps.branch_flush)]

(* The event signal of a step: at most one. *)
Event == {"none", "halted", "faulted", "exceptionRaised", "breakpointHit"}
event(c, o) ==
  CASE o.result = "Halt"      -> "halted"
    [] o.result = "Fault"     -> "faulted"
    [] o.result = "Exception" -> "exceptionRaised"
    [] OTHER                  -> IF o.pc \in c.breakpoints THEN "breakpointHit" ELSE "none"

(* Mutant: the run timer is left on at a breakpoint. *)
doStepRunsThroughBreakpoint(c, o) ==
  [c EXCEPT !.cpu = step(@, o), !.stats = accumulateStats(@, o.ps),
            !.active = @ /\ o.result = "Ok"]

doStep(c, o) ==
  [c EXCEPT !.cpu = step(@, o), !.stats = accumulateStats(@, o.ps),
            !.active = @ /\ event(c, o) = "none"]

(* Mutant: a full-speed run is never shown. *)
emitsUpdateNeverAtFullSpeed(c, o) ==
  ~(c.active /\ c.interval = 0) \/ event(c, o) # "none"

(* Mutant: the throttle looks at the speed only, which is full when the    *)
(* timer has never been started.                                           *)
emitsUpdateByInterval(c, o) ==
  LET throttle == c.interval = 0 /\ doStep(c, o).cpu.cycle % EmitPeriod # 0
  IN  ~throttle

(* Whether doStep() emits cycleExecuted, pipelineStateChanged and          *)
(* statisticsUpdated: unless the timer still drives a full-speed run.      *)
emitsUpdate(c, o) ==
  LET d        == doStep(c, o)
      throttle == d.active /\ d.interval = 0 /\ d.cpu.cycle % EmitPeriod # 0
  IN  ~throttle \/ event(c, o) # "none"
=============================================================================
