------------------------ MODULE QuickSimulatorProofs ------------------------
(***************************************************************************)
(* What holds of the Quick front end and its controller for every set of   *)
(* programs, addresses, step outcomes and speeds, and every counter width. *)
(***************************************************************************)
EXTENDS QuickSimulator, SimulatorControllerProofs

(* The controller of a new model. *)
LEMMA FreshController ==
  ASSUME NEW s \in 0 .. 100
  PROVE  LET d == freshController(s) IN
         /\ d \in Controller /\ ~d.active /\ d.interval = (100 - s) * 5
         /\ d.cpu = PoweredOn /\ d.stats = NoStatistics /\ d.loaded = NoProgram
<1>1. NewController \in Controller
  BY PoweredOnType DEF NewController, Controller
<1> QED
  BY <1>1, SpeedType DEF freshController, NewController

QuickIInv == QuickInv /\ ShownIsCurrent

(* What a snapshot shows is well-typed. *)
LEMMA SnapshotType ==
  ASSUME NEW m \in Machine
  PROVE  Snapshot(m) \in [cycle : Cycle, ps : PipelineState]
  BY DEF Snapshot, Machine

LEMMA QuickInitial ==
  QuickInit => QuickIInv
<1> SUFFICES ASSUME QuickInit PROVE QuickIInv
  OBVIOUS
<1> USE DEF QuickInit
<1>1. /\ ctl \in Controller /\ ~ctl.active /\ ctl.interval = (100 - 60) * 5
      /\ ctl.cpu = PoweredOn /\ ctl.stats = NoStatistics /\ ctl.loaded = NoProgram
  BY FreshController
<1>2. /\ PoweredOn.program = NoProgram /\ PoweredOn.cycle = 0
      /\ NoStatistics.cycles_executed = 0 /\ NoStages = Snapshot(PoweredOn)
  BY DEF PoweredOn, NoStatistics, NoStages, Snapshot
<1>3. QuickTypeOK
  <2>1. stages \in [cycle : Cycle, ps : PipelineState]
    BY <1>2, PoweredOnType, SnapshotType
  <2>2. 0 \in Cycle
    BY ProcessorAssumption DEF Cycle
  <2>3. /\ status \in Status /\ qml_running \in BOOLEAN /\ model \in Models
        /\ last_program \in Programs \cup {NoProgram} /\ program_loaded \in BOOLEAN
    BY DEF Status, Models
  <2>4. ctl \in Controller /\ regs \in Cycle /\ stats \in Statistics /\ speed \in 0 .. 100
    BY <1>1, <2>2, PoweredOnType
  <2> QED
    BY <2>1, <2>3, <2>4 DEF QuickTypeOK
<1>4. StatusTellsRunning /\ PauseIsOffered
  BY <1>1 DEF StatusTellsRunning, PauseIsOffered
<1>5. MachineIsConfigured
  BY <1>1, <1>2, ProcessorAssumption DEF MachineIsConfigured
<1>6. ShownIsCurrent
  BY <1>1, <1>2 DEF ShownIsCurrent
<1> QED
  BY <1>3, <1>4, <1>5, <1>6 DEF QuickIInv, QuickInv

(* A step of the controller, by the user or by the timer, with the signals *)
(* it emits.                                                               *)
LEMMA SteppedPreserves ==
  ASSUME QuickIInv, NEW o \in Outcomes, NEW quiet \in SUBSET {"Idle", "Breakpoint"},
         Stepped(o, quiet)
  PROVE  /\ QuickIInv'
         /\ ctl'.active => ctl'.cpu.pc \notin ctl.breakpoints
<1> DEFINE e == event(ctl, o)
           s == IF e = "none" THEN status ELSE eventStatus(e)
<1>1. ctl \in Controller /\ status \in Status /\ qml_running \in BOOLEAN
  BY DEF QuickIInv, QuickInv, QuickTypeOK
<1>2. /\ ctl' \in Controller
      /\ ctl'.cpu = step(ctl.cpu, o) /\ ctl'.stats = accumulateStats(ctl.stats, o.ps)
      /\ ctl'.loaded = ctl.loaded /\ ctl'.breakpoints = ctl.breakpoints
      /\ ctl'.interval = ctl.interval
      /\ ctl'.active <=> ctl.active /\ e = "none"
  BY <1>1, DoStep DEF Stepped
<1>3. ctl.cpu \in Machine /\ ctl.stats \in Statistics
  BY <1>1 DEF Controller
<1>4. /\ ctl'.cpu.program = ctl.cpu.program /\ ctl'.cpu.pc = o.pc
      /\ ctl.stats.cycles_executed = ctl.cpu.cycle
           => ctl'.stats.cycles_executed = ctl'.cpu.cycle
  BY <1>2, <1>3, StepType
<1>5. e \in Event /\ (e = "none" => o.pc \notin ctl.breakpoints)
  BY <1>1, EventType
<1>6. s \in Status /\ (e # "none" => s # "Running")
  BY <1>1, <1>5 DEF eventStatus, Status, Event
<1>7. /\ status' = (IF s \in quiet THEN "Paused" ELSE s)
      /\ qml_running' = (IF e = "none" THEN qml_running ELSE ctl'.active)
      /\ UNCHANGED <<last_program, program_loaded, model, speed>>
  BY DEF Stepped
<1>8. \/ stages' = Snapshot(ctl'.cpu) /\ regs' = ctl'.cpu.cycle /\ stats' = ctl'.stats
      \/ ctl'.active /\ UNCHANGED <<stages, regs, stats>>
  <2>1. ~emitsUpdate(ctl, o) => ctl'.active
    BY DEF emitsUpdate, Stepped
  <2> QED
    BY <2>1 DEF Stepped, onPipeline
<1> HIDE DEF e, s
<1>9. QuickTypeOK'
  <2>1. /\ stages' \in [cycle : Cycle, ps : PipelineState]
        /\ regs' \in Cycle /\ stats' \in Statistics
    <3>1. ctl'.cpu \in Machine /\ ctl'.stats \in Statistics
      BY <1>2 DEF Controller
    <3>2. ctl'.cpu.cycle \in Cycle /\ Snapshot(ctl'.cpu) \in [cycle : Cycle, ps : PipelineState]
      BY <3>1, SnapshotType DEF Machine
    <3> QED
      BY <1>8, <3>1, <3>2 DEF QuickIInv, QuickInv, QuickTypeOK
  <2>2. status' \in Status
    BY <1>6, <1>7 DEF Status
  <2>3. qml_running' \in BOOLEAN
    BY <1>1, <1>2, <1>7 DEF Controller
  <2> QED
    BY <1>2, <1>7, <2>1, <2>2, <2>3 DEF QuickIInv, QuickInv, QuickTypeOK
<1>10. StatusTellsRunning'
  <2>1. ctl.active <=> status = "Running"
    BY DEF QuickIInv, QuickInv, StatusTellsRunning
  <2>2. e = "none" => s = status
    BY DEF s
  <2>3. status' = "Running" <=> s = "Running"
    BY <1>7
  <2> QED
    BY <1>2, <1>6, <2>1, <2>2, <2>3 DEF StatusTellsRunning
<1>11. PauseIsOffered'
  BY <1>2, <1>7 DEF QuickIInv, QuickInv, PauseIsOffered
<1>12. MachineIsConfigured'
  BY <1>2, <1>4, <1>7 DEF QuickIInv, QuickInv, MachineIsConfigured
<1>13. ShownIsCurrent'
  BY <1>8 DEF ShownIsCurrent
<1> QED
  BY <1>2, <1>4, <1>5, <1>9, <1>10, <1>11, <1>12, <1>13 DEF QuickIInv, QuickInv

(* A loaded or reset machine is shown as it is. *)
LEMMA LoadedIsShown ==
  ASSUME NEW m \in Machine, m.cycle = 0
  PROVE  /\ Snapshot(m) \in [cycle : Cycle, ps : PipelineState]
         /\ 0 \in Cycle /\ NoStatistics \in Statistics /\ NoStatistics.cycles_executed = 0
  BY SnapshotType, PoweredOnType DEF Machine, NoStatistics

(* Every step preserves the invariant. *)
LEMMA QuickStep ==
  ASSUME QuickIInv, [QuickNext]_quickVars
  PROVE  QuickIInv'
<1> USE DEF QuickIInv, QuickInv
<1>1. /\ ctl \in Controller /\ status \in Status /\ speed \in 0 .. 100
      /\ last_program \in Programs \cup {NoProgram}
  BY DEF QuickTypeOK
<1>2. CASE Step
  BY <1>2, SteppedPreserves DEF Step
<1>3. CASE OnRunTimer
  BY <1>3, SteppedPreserves DEF OnRunTimer
<1>4. CASE RunPause
  <2>1. /\ ctl' \in Controller /\ ctl'.active = ~ctl.active
        /\ ctl'.cpu = ctl.cpu /\ ctl'.stats = ctl.stats /\ ctl'.loaded = ctl.loaded
        /\ ctl'.interval = ctl.interval
    <3>1. ctl' \in {stop(ctl), run(ctl)} /\ ctl' = (IF ctl.active THEN stop(ctl) ELSE run(ctl))
      BY <1>4 DEF RunPause
    <3>2. ctl.active \in BOOLEAN /\ ctl'.active \in BOOLEAN
      BY <1>1, <3>1, StopType DEF Controller
    <3> QED
      BY <1>1, <3>1, <3>2, StopType
  <2>2. QuickTypeOK'
    BY <1>4, <2>1 DEF RunPause, QuickTypeOK, Status, Controller
  <2>3. StatusTellsRunning' /\ PauseIsOffered'
    BY <1>4, <2>1 DEF RunPause, StatusTellsRunning, PauseIsOffered
  <2>4. MachineIsConfigured'
    BY <1>4, <2>1 DEF RunPause, MachineIsConfigured
  <2>5. ShownIsCurrent'
    BY <1>4, <2>1 DEF RunPause, ShownIsCurrent
  <2> QED
    BY <2>2, <2>3, <2>4, <2>5
<1>5. CASE Reset
  <2>1. /\ ctl' \in Controller /\ ~ctl'.active
        /\ ctl'.cpu.program = ctl.loaded /\ ctl'.loaded = ctl.loaded
        /\ ctl'.cpu.cycle = 0 /\ ctl'.stats = NoStatistics /\ ctl'.interval = ctl.interval
    BY <1>1, <1>5, StopType, ResetType DEF Reset
  <2>2. ctl'.cpu \in Machine
    BY <2>1 DEF Controller
  <2>3. /\ Snapshot(ctl'.cpu) \in [cycle : Cycle, ps : PipelineState]
        /\ 0 \in Cycle /\ NoStatistics \in Statistics /\ NoStatistics.cycles_executed = 0
    BY <2>1, <2>2, LoadedIsShown
  <2>4. QuickTypeOK'
    BY <1>5, <2>1, <2>3 DEF Reset, onPipeline, QuickTypeOK, Status, Controller
  <2>5. StatusTellsRunning' /\ PauseIsOffered'
    BY <1>5, <2>1 DEF Reset, StatusTellsRunning, PauseIsOffered
  <2>6. MachineIsConfigured'
    BY <1>5, <2>1, <2>3 DEF Reset, MachineIsConfigured
  <2>7. ShownIsCurrent'
    BY <1>5 DEF Reset, onPipeline, ShownIsCurrent
  <2> QED
    BY <2>4, <2>5, <2>6, <2>7
<1>6. CASE AssembleAndLoad
  <2>1. PICK p \in Programs :
          /\ ctl' = loadProgram(reset(stop(ctl)), p)
          /\ last_program' = p
          /\ program_loaded' = (p \in Fits)
          /\ stages' = Snapshot(ctl'.cpu)
          /\ regs' = 0
          /\ stats' = NoStatistics
          /\ qml_running' = ctl'.active
          /\ status' = IF p \in Fits THEN "Loaded" ELSE "TooLarge"
          /\ UNCHANGED <<model, speed>>
    BY <1>6 DEF AssembleAndLoad
  <2>2. reset(stop(ctl)) \in Controller /\ reset(stop(ctl)).interval = ctl.interval
    BY <1>1, StopType, ResetType
  <2>3. /\ ctl' \in Controller /\ ~ctl'.active
        /\ ctl'.cpu = load_program(PoweredOn, p) /\ ctl'.stats = NoStatistics
        /\ ctl'.loaded = ctl'.cpu.program /\ ctl'.interval = ctl.interval
    BY <2>1, <2>2, LoadType
  <2>4. /\ ctl'.cpu \in Machine /\ ctl'.cpu.cycle = 0
        /\ ctl'.cpu.program = (IF p \in Fits THEN p ELSE NoProgram)
    BY <2>3, LoadedMachine
  <2>5. /\ Snapshot(ctl'.cpu) \in [cycle : Cycle, ps : PipelineState]
        /\ 0 \in Cycle /\ NoStatistics \in Statistics /\ NoStatistics.cycles_executed = 0
    BY <2>4, LoadedIsShown
  <2>6. QuickTypeOK'
    BY <2>1, <2>3, <2>5 DEF QuickTypeOK, Status, Controller
  <2>7. StatusTellsRunning' /\ PauseIsOffered'
    BY <2>1, <2>3 DEF StatusTellsRunning, PauseIsOffered
  <2>8. MachineIsConfigured'
    BY <2>1, <2>3, <2>4, <2>5 DEF MachineIsConfigured
  <2>9. ShownIsCurrent'
    BY <2>1, <2>3, <2>4 DEF ShownIsCurrent
  <2> QED
    BY <2>6, <2>7, <2>8, <2>9
<1>7. CASE ToggleBreakpoint
  <2>1. /\ ctl' \in Controller /\ ctl'.active = ctl.active
        /\ ctl'.cpu = ctl.cpu /\ ctl'.stats = ctl.stats /\ ctl'.loaded = ctl.loaded
        /\ ctl'.interval = ctl.interval
    BY <1>1, <1>7, ToggleType DEF ToggleBreakpoint
  <2> QED
    BY <1>7, <2>1 DEF ToggleBreakpoint, QuickTypeOK, StatusTellsRunning, PauseIsOffered,
                      MachineIsConfigured, ShownIsCurrent
<1>8. CASE SetSpeed
  <2>1. PICK s \in Speeds :
          /\ speed' = s
          /\ ctl' = setExecutionSpeed(ctl, s)
          /\ UNCHANGED <<status, qml_running, stages, regs, stats, last_program,
                         program_loaded, model>>
    BY <1>8 DEF SetSpeed
  <2>2. s \in 0 .. 100
    BY SpeedsAssumption
  <2>3. /\ ctl' \in Controller /\ ctl'.active = ctl.active
        /\ ctl'.cpu = ctl.cpu /\ ctl'.stats = ctl.stats /\ ctl'.loaded = ctl.loaded
        /\ ctl'.interval = (100 - s) * 5
    BY <1>1, <2>1, <2>2, SpeedType
  <2> QED
    BY <2>1, <2>2, <2>3 DEF QuickTypeOK, StatusTellsRunning, PauseIsOffered,
                            MachineIsConfigured, ShownIsCurrent
<1>9. CASE SetModel
  <2> DEFINE none == last_program = NoProgram
             new  == freshController(speed)
  <2>1. PICK m \in Models :
          /\ model' = m
          /\ ctl' = (IF none THEN new ELSE loadProgram(new, last_program))
          /\ program_loaded' = (last_program \in Fits)
          /\ stages' = (IF none THEN NoStages ELSE Snapshot(ctl'.cpu))
          /\ regs' = 0
          /\ stats' = NoStatistics
          /\ status' = "Idle"
          /\ UNCHANGED <<qml_running, last_program, speed>>
    BY <1>9 DEF SetModel
  <2>2. /\ new \in Controller /\ ~new.active /\ new.interval = (100 - speed) * 5
        /\ new.cpu = PoweredOn /\ new.stats = NoStatistics /\ new.loaded = NoProgram
    BY <1>1, FreshController
  <2>3. PoweredOn.program = NoProgram /\ PoweredOn.cycle = 0 /\ NoStages = Snapshot(PoweredOn)
    BY DEF PoweredOn, NoStages, Snapshot
  <2>4. /\ ctl' \in Controller /\ ~ctl'.active /\ ctl'.interval = (100 - speed) * 5
        /\ ctl'.stats = NoStatistics /\ ctl'.loaded = ctl'.cpu.program
        /\ ctl'.cpu \in Machine /\ ctl'.cpu.cycle = 0
        /\ ctl'.cpu.program = (IF last_program \in Fits THEN last_program ELSE NoProgram)
        /\ stages' = Snapshot(ctl'.cpu)
    <3>1. CASE none
      BY <2>1, <2>2, <2>3, <3>1, PoweredOnType
    <3>2. CASE ~none
      <4>1. ctl' = loadProgram(new, last_program)
        BY <2>1, <3>2
      <4>2. /\ ctl' \in Controller /\ ~ctl'.active
            /\ ctl'.cpu = load_program(PoweredOn, last_program) /\ ctl'.stats = NoStatistics
            /\ ctl'.loaded = ctl'.cpu.program /\ ctl'.interval = new.interval
        BY <2>2, <4>1, LoadType
      <4> QED
        BY <2>1, <2>2, <3>2, <4>2, LoadedMachine
    <3> QED
      BY <3>1, <3>2
  <2> HIDE DEF none, new
  <2>5. /\ Snapshot(ctl'.cpu) \in [cycle : Cycle, ps : PipelineState]
        /\ 0 \in Cycle /\ NoStatistics \in Statistics /\ NoStatistics.cycles_executed = 0
    BY <2>4, LoadedIsShown
  <2>6. QuickTypeOK'
    BY <2>1, <2>4, <2>5 DEF QuickTypeOK, Status
  <2>7. StatusTellsRunning' /\ PauseIsOffered'
    BY <2>1, <2>4 DEF StatusTellsRunning, PauseIsOffered
  <2>8. MachineIsConfigured'
    BY <2>1, <2>4, <2>5 DEF MachineIsConfigured
  <2>9. ShownIsCurrent'
    BY <2>1, <2>4 DEF ShownIsCurrent
  <2> QED
    BY <2>6, <2>7, <2>8, <2>9
<1>10. CASE UNCHANGED quickVars
  BY <1>10 DEF quickVars, QuickTypeOK, StatusTellsRunning, PauseIsOffered,
               MachineIsConfigured, ShownIsCurrent
<1> QED
  BY <1>2, <1>3, <1>4, <1>5, <1>6, <1>7, <1>8, <1>9, <1>10 DEF QuickNext

(* Only steps move the machine of a run that goes on, and they stop it at  *)
(* a breakpoint.                                                           *)
LEMMA BreakpointStep ==
  ASSUME QuickIInv, QuickNext, ctl.active, ctl'.active, ctl'.cpu # ctl.cpu
  PROVE  ctl'.cpu.pc \notin ctl.breakpoints
<1>1. ctl \in Controller /\ speed \in 0 .. 100
  BY DEF QuickIInv, QuickInv, QuickTypeOK
<1>2. CASE Step
  BY <1>2, SteppedPreserves DEF Step
<1>3. CASE OnRunTimer
  BY <1>3, SteppedPreserves DEF OnRunTimer
<1>4. CASE RunPause
  BY <1>1, <1>4, StopType DEF RunPause
<1>5. CASE Reset
  BY <1>1, <1>5, StopType, ResetType DEF Reset
<1>6. CASE AssembleAndLoad
  <2>1. reset(stop(ctl)) \in Controller
    BY <1>1, StopType, ResetType
  <2>2. PICK p \in Programs : ctl' = loadProgram(reset(stop(ctl)), p)
    BY <1>6 DEF AssembleAndLoad
  <2> QED
    BY <2>1, <2>2, LoadType
<1>7. CASE ToggleBreakpoint
  BY <1>1, <1>7, ToggleType DEF ToggleBreakpoint
<1>8. CASE SetSpeed
  <2>1. PICK s \in Speeds : ctl' = setExecutionSpeed(ctl, s)
    BY <1>8 DEF SetSpeed
  <2> QED
    BY <1>1, <2>1, SpeedsAssumption, SpeedType
<1>9. CASE SetModel
  <2>1. freshController(speed) \in Controller /\ ~freshController(speed).active
    BY <1>1, FreshController
  <2>2. ctl' \in {freshController(speed), loadProgram(freshController(speed), last_program)}
    BY <1>9 DEF SetModel
  <2> QED
    BY <2>1, <2>2, LoadType
<1> QED
  BY <1>2, <1>3, <1>4, <1>5, <1>6, <1>7, <1>8, <1>9 DEF QuickNext

-----------------------------------------------------------------------------
(* The results *)

LEMMA QuickInductive == QuickSpec => []QuickIInv
  BY QuickInitial, QuickStep, PTL DEF QuickSpec

(* Status, Run button, program, speed and statistics agree with the        *)
(* machine in every order of user commands and timer steps, model switches *)
(* and failed loads included.                                              *)
THEOREM QuickIsConsistent == QuickSpec => []QuickInv
  BY QuickInductive, PTL DEF QuickIInv

(* Throttling never hides the result of a run that has ended by itself, of *)
(* a step, a reset, a load or a model switch.                              *)
THEOREM QuickShowsTheMachine == QuickSpec => []ShownIsCurrent
  BY QuickInductive, PTL DEF QuickIInv

(* The timer never continues a run from the address of a breakpoint. *)
THEOREM QuickStopsAtBreakpoints == QuickSpec => RunStopsAtBreakpoints
<1>1. QuickIInv /\ [QuickNext]_quickVars =>
        [ctl.active /\ ctl'.active /\ ctl'.cpu # ctl.cpu
           => ctl'.cpu.pc \notin ctl.breakpoints]_quickVars
  <2> SUFFICES ASSUME QuickIInv, QuickNext, ctl.active, ctl'.active, ctl'.cpu # ctl.cpu
               PROVE  ctl'.cpu.pc \notin ctl.breakpoints
    OBVIOUS
  <2> QED
    BY BreakpointStep
<1> QED
  BY <1>1, QuickInductive, PTL DEF QuickSpec, RunStopsAtBreakpoints
=============================================================================
