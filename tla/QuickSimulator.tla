---------------------------- MODULE QuickSimulator ----------------------------
(***************************************************************************)
(* nsc::quick::QuickSimulator: the bridge between the controller and the   *)
(* QML front end.  It caches what QML shows (stages, registers,            *)
(* statistics, status) and refreshes the caches from the controller's      *)
(* signals.  The pipeline trace is in PipelineViews.                       *)
(***************************************************************************)
EXTENDS SimulatorController

CONSTANT Speeds       \* what the speed slider may be set to
ASSUME SpeedsAssumption == Speeds \subseteq 0 .. 100

VARIABLES
  ctl,             \* the controller
  status,          \* status_, without the numbers it quotes
  qml_running,     \* what QML last read of the running property
  stages,          \* the snapshot in stages_ and hazards_; NoStages when cleared
  regs,            \* RegisterModel: the cycle whose registers it holds
  stats,           \* stats_
  last_program, program_loaded, model, speed

quickVars ==
  <<ctl, status, qml_running, stages, regs, stats, last_program, program_loaded,
    model, speed>>

Status ==
  {"Idle", "Paused", "Running", "Halted", "Faulted", "Exception", "Breakpoint",
   "Loaded", "TooLarge"}
Models == {"pipelined", "single"}
NoStages == [cycle |-> 0, ps |-> NoPipelineState]
Snapshot(m) == [cycle |-> m.cycle, ps |-> m.ps]

-----------------------------------------------------------------------------
(* Slots *)

(* pipelineStateChanged: onPipeline() refills the stages and refreshes the *)
(* register model from the live register file.                             *)
onPipeline(c) ==
  /\ stages' = Snapshot(c.cpu)
  /\ regs' = c.cpu.cycle

(* halted, faulted, exceptionRaised and breakpointHit each set a status    *)
(* and make QML read the running property again.                           *)
eventStatus(e) ==
  CASE e = "halted"          -> "Halted"
    [] e = "faulted"         -> "Faulted"
    [] e = "exceptionRaised" -> "Exception"
    [] e = "breakpointHit"   -> "Breakpoint"

(* One step of the controller with its signals; quiet are the statuses     *)
(* that the caller turns into Paused afterwards.                           *)
Stepped(o, quiet) ==
  LET e == event(ctl, o)
      s == IF e = "none" THEN status ELSE eventStatus(e)
  IN
  /\ ctl' = doStep(ctl, o)
  /\ IF emitsUpdate(ctl, o)
     THEN onPipeline(ctl') /\ stats' = ctl'.stats
     ELSE UNCHANGED <<stages, regs, stats>>
  /\ status' = IF s \in quiet THEN "Paused" ELSE s
  /\ qml_running' = IF e = "none" THEN qml_running ELSE ctl'.active
  /\ UNCHANGED <<last_program, program_loaded, model, speed>>

-----------------------------------------------------------------------------
(* Transport *)

(* F10 and the Step button: also while the timer runs. *)
Step ==
  /\ program_loaded
  /\ \E o \in Outcomes : Stepped(o, {"Idle", "Breakpoint"})

(* The run timer fires. *)
OnRunTimer ==
  /\ ctl.active
  /\ \E o \in Outcomes : Stepped(o, {})

(* Mutant: QML is not told. *)
RunPauseQuietly ==
  /\ program_loaded
  /\ ctl' = IF ctl.active THEN stop(ctl) ELSE run(ctl)
  /\ status' = IF ctl.active THEN "Paused" ELSE "Running"
  /\ UNCHANGED <<qml_running, stages, regs, stats, last_program, program_loaded, model, speed>>

RunPause ==
  /\ program_loaded
  /\ ctl' = IF ctl.active THEN stop(ctl) ELSE run(ctl)
  /\ status' = IF ctl.active THEN "Paused" ELSE "Running"
  /\ qml_running' = ctl'.active
  /\ UNCHANGED <<stages, regs, stats, last_program, program_loaded, model, speed>>

Reset ==
  /\ ctl' = reset(stop(ctl))
  /\ onPipeline(ctl')
  /\ stats' = ctl'.stats
  /\ qml_running' = ctl'.active
  /\ status' = "Idle"
  /\ UNCHANGED <<last_program, program_loaded, model, speed>>

(* Source that does not assemble changes nothing; the message goes to the  *)
(* editor.  Otherwise stop(), reset() and loadProgram(), then the caches   *)
(* their signals filled are cleared again, except the stages.              *)
AssembleAndLoad ==
  \E p \in Programs :
    /\ ctl' = loadProgram(reset(stop(ctl)), p)
    /\ last_program' = p
    /\ program_loaded' = (p \in Fits)
    /\ stages' = Snapshot(ctl'.cpu)
    /\ regs' = 0
    /\ stats' = NoStatistics
    /\ qml_running' = ctl'.active
    /\ status' = IF p \in Fits THEN "Loaded" ELSE "TooLarge"
    /\ UNCHANGED <<model, speed>>

ToggleBreakpoint ==
  /\ \E pc \in Pcs : ctl' = toggleBreakpoint(ctl, pc)
  /\ UNCHANGED <<status, qml_running, stages, regs, stats, last_program, program_loaded,
                 model, speed>>

SetSpeed ==
  \E s \in Speeds \ {speed} :
    /\ speed' = s
    /\ ctl' = setExecutionSpeed(ctl, s)
    /\ UNCHANGED <<status, qml_running, stages, regs, stats, last_program, program_loaded, model>>

(* The controller rebuildController() makes: no breakpoints, not running,  *)
(* at the current speed.                                                   *)
freshController(s) == setExecutionSpeed(NewController, s)

(* rebuildController() clears the caches, and loads the last program,      *)
(* whose pipelineStateChanged refills stages and registers.  Nothing       *)
(* emits runningChanged.                                                   *)
SetModel ==
  \E m \in Models \ {model} :
    /\ model' = m
    /\ ctl' = IF last_program = NoProgram THEN freshController(speed)
              ELSE loadProgram(freshController(speed), last_program)
    /\ program_loaded' = (last_program \in Fits)
    /\ stages' = IF last_program = NoProgram THEN NoStages ELSE Snapshot(ctl'.cpu)
    /\ regs' = 0
    /\ stats' = NoStatistics
    /\ status' = "Idle"
    /\ UNCHANGED <<qml_running, last_program, speed>>

QuickInit ==
  /\ model = "pipelined" /\ speed = 60
  /\ ctl = freshController(60)
  /\ last_program = NoProgram /\ program_loaded = FALSE
  /\ stages = NoStages /\ regs = 0 /\ stats = NoStatistics
  /\ status = "Idle" /\ qml_running = FALSE

QuickNext ==
  Step \/ OnRunTimer \/ RunPause \/ Reset \/ AssembleAndLoad \/ ToggleBreakpoint
    \/ SetSpeed \/ SetModel

QuickSpec == QuickInit /\ [][QuickNext]_quickVars

(* Qt's event loop delivers the timeouts of an active timer. *)
QuickFairSpec == QuickSpec /\ WF_quickVars(OnRunTimer)

-----------------------------------------------------------------------------
(* Properties *)

(* Type correctness. *)
QuickTypeOK ==
  /\ ctl \in Controller
  /\ status \in Status
  /\ qml_running \in BOOLEAN
  /\ stages \in [cycle : Cycle, ps : PipelineState]
  /\ regs \in Cycle
  /\ stats \in Statistics
  /\ last_program \in Programs \cup {NoProgram}
  /\ program_loaded \in BOOLEAN
  /\ model \in Models
  /\ speed \in 0 .. 100

(* The status says Running exactly while the run timer is on, whichever of *)
(* a breakpoint, a halt, a trap, a pause, a reset, a new program or a new  *)
(* model ended the run.                                                    *)
StatusTellsRunning == ctl.active <=> status = "Running"

(* While a run is on, QML knows it, so the button offers Pause.  (The      *)
(* converse fails: switching the model ends a run without runningChanged.) *)
PauseIsOffered == ctl.active => qml_running

(* Throttling never hides a result: when a run has ended by itself, or     *)
(* after a reset, a load or a model switch, stages, registers and          *)
(* statistics are those of the processor.  The Paused status is exempt: a  *)
(* pause of a full-speed run, and a manual step that returns Ok, may leave *)
(* older ones on the screen.                                               *)
ShownIsCurrent ==
  ~ctl.active /\ status # "Paused" =>
    stages = Snapshot(ctl.cpu) /\ regs = ctl.cpu.cycle /\ stats = ctl.stats

(* The machine under the controller is the configured one: it holds the    *)
(* last assembled program if that one fits, it runs at the chosen speed,   *)
(* its statistics count the cycles since the load, and reset() would load  *)
(* that same program.                                                      *)
MachineIsConfigured ==
  /\ ctl.interval = (100 - speed) * 5
  /\ program_loaded <=> last_program \in Fits
  /\ ctl.cpu.program = (IF program_loaded THEN last_program ELSE NoProgram)
  /\ ctl.loaded = ctl.cpu.program
  /\ ctl.stats.cycles_executed = ctl.cpu.cycle

(* A breakpoint stops a run before the instruction at its address: the     *)
(* timer never continues from a breakpoint's PC without the user.          *)
RunStopsAtBreakpoints ==
  [][ctl.active /\ ctl'.active /\ ctl'.cpu # ctl.cpu
       => ctl'.cpu.pc \notin ctl.breakpoints]_quickVars

(* A run that goes on for ever is shown again and again, at full speed too. *)
RunIsShown ==
  []<>(ctl.active => stages = Snapshot(ctl.cpu) /\ stats = ctl.stats)

(* Types, status, button and configuration, together. *)
QuickInv == QuickTypeOK /\ StatusTellsRunning /\ PauseIsOffered /\ MachineIsConfigured
=============================================================================
