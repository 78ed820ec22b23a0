--------------------------- MODULE FrontEndProofs ---------------------------
(***************************************************************************)
(* What holds of the two front ends that draw the machine themselves.  Of  *)
(* the Widgets window and its controller: for every set of programs,       *)
(* addresses, step outcomes and speeds, and every counter width and emit   *)
(* period.  Of the terminal front end and its two threads: for every set   *)
(* of programs, addresses and step outcomes, every length of the trace and *)
(* page of the memory view, and every bound on cycles and queued events.   *)
(***************************************************************************)
EXTENDS MainWindow, TerminalUi, SimulatorControllerProofs

-----------------------------------------------------------------------------
(* The Widgets window *)

(* A register panel without a note of something missed has drawn what it   *)
(* holds, hidden or not.                                                   *)
CleanIsDrawn ==
  registers.visible \/ ~registers.dirty => registers.drawn = registers.held

(* The schematic is never ahead of the machine.  A throttled step never    *)
(* ends at a multiple of the period, so it does not wrap the counter and   *)
(* leaves the schematic strictly behind: one that has the machine's cycle  *)
(* has its snapshot, and the memory panel was copied with it.              *)
SchematicIsBehind ==
  /\ datapath.cycle <= ctl.cpu.cycle
  /\ datapath.cycle = ctl.cpu.cycle =>
       /\ datapath = Snapshot(ctl.cpu)
       /\ memory.visible => memory.shown = ctl.cpu.cycle

(* Nothing moves below the menu of a stopped machine. *)
MenuIsAtStage ==
  dialog.kind = "menu" /\ dialog.stopped => ~ctl.active /\ datapath.ps.stage = dialog.pc

WindowIInv == WindowInv /\ CleanIsDrawn /\ SchematicIsBehind /\ MenuIsAtStage

-----------------------------------------------------------------------------
(* Panels *)

LEMMA SnapshotType ==
  ASSUME NEW m \in Machine
  PROVE  /\ Snapshot(m) \in [cycle : Cycle, ps : PipelineState]
         /\ Snapshot(m).cycle = m.cycle /\ Snapshot(m).ps = m.ps
  BY DEF Snapshot, Machine

RegisterPanel == [visible : BOOLEAN, dirty : BOOLEAN, held : Cycle, drawn : Cycle]
MemoryPanel == [visible : BOOLEAN, shown : Cycle]

(* A panel that is updated holds the machine's registers, and has drawn    *)
(* them if it is in view; one that is hidden notes it.                     *)
LEMMA RegistersUpdate ==
  ASSUME NEW r \in RegisterPanel, NEW c, c.cpu.cycle \in Cycle
  PROVE  LET s == registersUpdate(r, c) IN
         /\ s \in RegisterPanel /\ s.visible = r.visible
         /\ s.held = c.cpu.cycle
         /\ s.visible \/ ~s.dirty => s.drawn = s.held
  BY DEF registersUpdate, RegisterPanel

LEMMA RegistersClear ==
  ASSUME NEW r \in RegisterPanel
  PROVE  LET s == registersClear(r) IN
         /\ s \in RegisterPanel /\ s.held = 0 /\ s.drawn = 0
<1>1. 0 \in Cycle
  BY ProcessorAssumption DEF Cycle
<1> QED
  BY <1>1 DEF registersClear, RegisterPanel

LEMMA MemoryUpdate ==
  ASSUME NEW m \in MemoryPanel, NEW c, c.cpu.cycle \in Cycle
  PROVE  LET n == memoryUpdate(m, c) IN
         /\ n \in MemoryPanel
         /\ n.visible => n.shown = c.cpu.cycle
  BY DEF memoryUpdate, MemoryPanel

(* A step that is not shown has not wrapped the counter. *)
LEMMA ThrottledStepAdvances ==
  ASSUME NEW c \in Controller, NEW o \in Outcomes, ~emitsUpdate(c, o)
  PROVE  /\ doStep(c, o).active
         /\ doStep(c, o).cpu.cycle = c.cpu.cycle + 1
<1> DEFINE d == doStep(c, o)
           n == c.cpu.cycle
<1>1. d.active /\ d.cpu.cycle % EmitPeriod # 0
  BY DEF emitsUpdate
<1>2. d.cpu = step(c.cpu, o) /\ c.cpu \in Machine
  BY DoStep DEF Controller
<1>3. d.cpu.cycle = (n + 1) % CycleWidth /\ n \in Cycle
  BY <1>2 DEF step, Machine
<1>4. n \in Int /\ CycleWidth \in Nat \ {0} /\ n >= 0 /\ n < CycleWidth
  BY <1>3, ProcessorAssumption DEF Cycle
<1>5. d.cpu.cycle # 0
  BY <1>1, EmitPeriodAssumption
<1> HIDE DEF d, n
<1>6. CASE n + 1 = CycleWidth
  <2>1. (n + 1) % CycleWidth = 0
    BY <1>4, <1>6
  <2> QED
    BY <1>3, <1>5, <2>1
<1>7. CASE n + 1 < CycleWidth
  <2>1. (n + 1) % CycleWidth = n + 1
    BY <1>4, <1>7
  <2> QED
    BY <1>1, <1>3, <2>1 DEF d, n
<1> QED
  BY <1>4, <1>6, <1>7
-----------------------------------------------------------------------------
(* Steps *)

(* What the three action properties ask of one step. *)
LoadAsked == ctl.cpu.cycle # 0 /\ ctl'.loaded # ctl.loaded => dialog.kind = "discard"
StopShown ==
  ctl'.cpu # ctl.cpu /\ ~ctl'.active =>
    /\ datapath' = Snapshot(ctl'.cpu) /\ stats_lbl' = ctl'.stats
    /\ registers'.held = ctl'.cpu.cycle
    /\ memory'.visible => memory'.shown = ctl'.cpu.cycle
    /\ ctl'.cpu.cycle # 0 => cycles_lbl' = ctl'.cpu.cycle
MenuToggles ==
  dialog.kind = "menu" /\ dialog.stopped /\ ctl'.breakpoints # ctl.breakpoints
    => ctl' = toggleBreakpoint(ctl, dialog.pc)

WindowSafe == WindowIInv' /\ LoadAsked /\ StopShown /\ MenuToggles

LEMMA WindowInitial ==
  WindowInit => WindowIInv
<1> SUFFICES ASSUME WindowInit PROVE WindowIInv
  OBVIOUS
<1> USE DEF WindowInit
<1>1. NewController \in Controller
  BY PoweredOnType DEF NewController, Controller
<1>2. ctl \in Controller /\ ctl.cpu = PoweredOn /\ ~ctl.active
  <2>1. PICK s \in WindowSpeeds : ctl = setExecutionSpeed(NewController, s)
    OBVIOUS
  <2>2. s \in 0 .. 100
    BY WindowAssumption
  <2> QED
    BY <1>1, <2>1, <2>2, SpeedType DEF NewController
<1>3. 0 \in Cycle /\ PoweredOn.cycle = 0 /\ PoweredOn \in Machine
  BY ProcessorAssumption, PoweredOnType DEF Cycle, PoweredOn
<1>4. dialog.kind = "none"
  BY DEF NoDialog
<1>5. WindowTypeOK
  <2>1. /\ datapath \in [cycle : Cycle, ps : PipelineState]
        /\ stats_lbl \in Statistics /\ cycles_lbl \in Cycle
    BY <1>3, SnapshotType, PoweredOnType
  <2>2. /\ registers \in [visible : BOOLEAN, dirty : BOOLEAN, held : Cycle, drawn : Cycle]
        /\ memory \in [visible : BOOLEAN, shown : Cycle]
    BY <1>3
  <2>3. /\ dialog \in Dialog /\ banner \in {"none", "green", "red"}
        /\ assembled \in Programs \cup {NoProgram} /\ run_state \in BOOLEAN
    BY DEF Dialog
  <2>4. banner_timers \in 0 .. MaxTimers
    BY WindowAssumption
  <2> QED
    BY <1>2, <2>1, <2>2, <2>3, <2>4 DEF WindowTypeOK
<1>6. RunButtonTellsRunning /\ BannerWillClear
  BY <1>2 DEF RunButtonTellsRunning, BannerWillClear
<1>7. PanelsInViewAreCurrent /\ CleanIsDrawn
  BY <1>2, <1>3 DEF PanelsInViewAreCurrent, CleanIsDrawn
<1>8. SchematicIsBehind
  BY <1>2, <1>3, SnapshotType DEF SchematicIsBehind
<1>9. MenuIsAtStage
  BY <1>4 DEF MenuIsAtStage
<1> QED
  BY <1>5, <1>6, <1>7, <1>8, <1>9 DEF WindowIInv, WindowInv

(* An operation that leaves the machine and what is shown of it alone:     *)
(* running, pausing, speed, breakpoints, the editor and the dialogs.       *)
LEMMA ControlPreserves ==
  ASSUME WindowIInv,
         ctl' \in Controller, ctl'.cpu = ctl.cpu, run_state' \in BOOLEAN,
         run_state' <=> ctl'.active,
         UNCHANGED <<datapath, cycles_lbl, stats_lbl, registers, memory, banner, banner_timers>>,
         assembled' \in Programs \cup {NoProgram}, dialog' \in Dialog, MenuIsAtStage'
  PROVE  WindowIInv' /\ StopShown
<1>1. WindowTypeOK'
  BY DEF WindowIInv, WindowInv, WindowTypeOK
<1>2. RunButtonTellsRunning' /\ BannerWillClear'
  BY DEF WindowIInv, WindowInv, RunButtonTellsRunning, BannerWillClear
<1>3. PanelsInViewAreCurrent' /\ CleanIsDrawn'
  BY DEF WindowIInv, WindowInv, PanelsInViewAreCurrent, CleanIsDrawn
<1>4. SchematicIsBehind'
  BY DEF WindowIInv, SchematicIsBehind
<1> QED
  BY <1>1, <1>2, <1>3, <1>4 DEF WindowIInv, WindowInv, StopShown

(* A new or reset machine is shown in every panel. *)
LEMMA ResetPreserves ==
  ASSUME WindowIInv, NEW c \in Controller, ~c.active, c.cpu.cycle = 0,
         ResetTo(c), assembled' = assembled, dialog' = NoDialog
  PROVE  WindowIInv' /\ StopShown
<1>1. /\ registers \in RegisterPanel /\ memory \in MemoryPanel /\ c.cpu \in Machine
      /\ c.stats \in Statistics /\ c.cpu.cycle \in Cycle
  BY DEF WindowIInv, WindowInv, WindowTypeOK, RegisterPanel, MemoryPanel, Controller, Machine
<1>2. /\ ctl' = c /\ run_state' = FALSE /\ datapath' = Snapshot(c.cpu) /\ stats_lbl' = c.stats
      /\ UNCHANGED <<cycles_lbl, banner, banner_timers>>
  BY DEF ResetTo
<1>3. registers' \in RegisterPanel /\ registers'.held = 0 /\ registers'.drawn = 0
  <2>1. registers' = registersClear(registersUpdate(registers, c))
    BY DEF ResetTo
  <2>2. registersUpdate(registers, c) \in RegisterPanel
    BY <1>1, RegistersUpdate
  <2> QED
    BY <2>1, <2>2, RegistersClear
<1>4. memory' \in MemoryPanel /\ (memory'.visible => memory'.shown = c.cpu.cycle)
  BY <1>1, MemoryUpdate DEF ResetTo
<1>5. dialog' \in Dialog /\ dialog'.kind = "none"
  BY DEF Dialog, NoDialog
<1>6. datapath' \in [cycle : Cycle, ps : PipelineState] /\ datapath'.cycle = c.cpu.cycle
  BY <1>1, <1>2, SnapshotType
<1>7. WindowTypeOK'
  BY <1>1, <1>2, <1>3, <1>4, <1>5, <1>6
     DEF WindowIInv, WindowInv, WindowTypeOK, RegisterPanel, MemoryPanel
<1>8. RunButtonTellsRunning' /\ BannerWillClear'
  BY <1>2 DEF WindowIInv, WindowInv, RunButtonTellsRunning, BannerWillClear
<1>9. CleanIsDrawn'
  BY <1>3 DEF CleanIsDrawn
<1>10. SchematicIsBehind'
  BY <1>1, <1>2, <1>4, <1>6 DEF SchematicIsBehind, Cycle
<1>11. PanelsInViewAreCurrent'
  BY <1>2, <1>3, <1>4 DEF PanelsInViewAreCurrent
<1>12. MenuIsAtStage'
  BY <1>5 DEF MenuIsAtStage
<1>13. StopShown
  BY <1>2, <1>3, <1>4 DEF StopShown
<1> QED
  BY <1>7, <1>8, <1>9, <1>10, <1>11, <1>12, <1>13 DEF WindowIInv, WindowInv

(* A step of the controller c, by the user (who stops it first) or by the  *)
(* timer, with the signals it emits.                                       *)
LEMMA SteppedPreserves ==
  ASSUME WindowIInv, NEW c \in {stop(ctl), ctl}, NEW rs \in BOOLEAN, NEW o \in Outcomes,
         rs <=> c.active, Free \/ ctl.active, Stepped(c, rs, o)
  PROVE  WindowSafe
<1> DEFINE e == event(c, o)
<1>1. /\ WindowTypeOK /\ ctl \in Controller /\ ctl.cpu \in Machine
      /\ registers \in RegisterPanel /\ memory \in MemoryPanel
      /\ datapath \in [cycle : Cycle, ps : PipelineState]
      /\ banner_timers \in 0 .. MaxTimers
  BY DEF WindowIInv, WindowInv, WindowTypeOK, RegisterPanel, MemoryPanel, Controller
<1>2. /\ c \in Controller /\ c.cpu = ctl.cpu /\ c.loaded = ctl.loaded
      /\ c.breakpoints = ctl.breakpoints
  BY <1>1, StopType
<1>3. /\ ctl' = doStep(c, o) /\ ctl' \in Controller
      /\ ctl'.loaded = ctl.loaded /\ ctl'.breakpoints = ctl.breakpoints
      /\ ctl'.active <=> c.active /\ e = "none"
  BY <1>2, DoStep DEF Stepped
<1>4. e \in Event
  BY <1>2, EventType
<1>5. /\ ctl'.cpu \in Machine /\ ctl'.stats \in Statistics /\ ctl'.cpu.cycle \in Cycle
  BY <1>3 DEF Controller, Machine
<1>6. /\ run_state' = (IF e = "none" THEN rs ELSE FALSE)
      /\ UNCHANGED <<assembled, dialog>>
  BY DEF Stepped, runStateAfter
<1>7. \/ /\ e \in {"none", "breakpointHit"} /\ UNCHANGED <<banner, banner_timers>>
      \/ /\ banner' \in {"green", "red"}
         /\ banner_timers' = IF banner_timers < MaxTimers THEN banner_timers + 1 ELSE MaxTimers
  BY DEF Stepped, flashStatusBanner
<1>8. \/ /\ cycles_lbl' = ctl'.cpu.cycle /\ stats_lbl' = ctl'.stats
         /\ datapath' = Snapshot(ctl'.cpu) /\ registers' = registersUpdate(registers, ctl')
         /\ memory' = memoryUpdate(memory, ctl')
      \/ /\ ~emitsUpdate(c, o)
         /\ UNCHANGED <<cycles_lbl, datapath, registers, memory, stats_lbl>>
  BY DEF Stepped, onPipelineStateChanged
<1> HIDE DEF e
<1>9. /\ datapath' \in [cycle : Cycle, ps : PipelineState]
      /\ registers' \in RegisterPanel /\ memory' \in MemoryPanel
      /\ cycles_lbl' \in Cycle /\ stats_lbl' \in Statistics
      /\ CleanIsDrawn' /\ SchematicIsBehind' /\ StopShown
  <2>1. CASE /\ cycles_lbl' = ctl'.cpu.cycle /\ stats_lbl' = ctl'.stats
             /\ datapath' = Snapshot(ctl'.cpu) /\ registers' = registersUpdate(registers, ctl')
             /\ memory' = memoryUpdate(memory, ctl')
    <3>1. /\ datapath' \in [cycle : Cycle, ps : PipelineState]
          /\ datapath'.cycle = ctl'.cpu.cycle
      BY <1>5, <2>1, SnapshotType
    <3>2. /\ registers' \in RegisterPanel /\ registers'.held = ctl'.cpu.cycle
          /\ CleanIsDrawn'
      <4> DEFINE p == registers'
      <4>1. p = registersUpdate(registers, ctl')
        BY <2>1
      <4>2. /\ p \in RegisterPanel /\ p.held = ctl'.cpu.cycle
            /\ (p.visible \/ ~p.dirty => p.drawn = p.held)
        BY <1>1, <1>5, <4>1, RegistersUpdate
      <4> QED
        BY <4>2 DEF CleanIsDrawn
    <3>3. memory' \in MemoryPanel /\ (memory'.visible => memory'.shown = ctl'.cpu.cycle)
      BY <1>1, <1>5, <2>1, MemoryUpdate
    <3>4. SchematicIsBehind'
      BY <1>5, <2>1, <3>1, <3>3 DEF SchematicIsBehind, Cycle
    <3>5. StopShown
      BY <2>1, <3>2, <3>3 DEF StopShown
    <3> QED
      BY <1>5, <2>1, <3>1, <3>2, <3>3, <3>4, <3>5
  <2>2. CASE /\ ~emitsUpdate(c, o)
             /\ UNCHANGED <<cycles_lbl, datapath, registers, memory, stats_lbl>>
    <3>1. ctl'.active /\ ctl'.cpu.cycle = ctl.cpu.cycle + 1
      BY <1>2, <1>3, <2>2, ThrottledStepAdvances
    <3>2. datapath.cycle <= ctl.cpu.cycle /\ datapath.cycle \in Int /\ ctl.cpu.cycle \in Int
      BY <1>1 DEF WindowIInv, SchematicIsBehind, Cycle, Machine
    <3>3. SchematicIsBehind'
      BY <2>2, <3>1, <3>2 DEF SchematicIsBehind
    <3>4. CleanIsDrawn' /\ StopShown
      BY <2>2, <3>1 DEF WindowIInv, CleanIsDrawn, StopShown
    <3> QED
      BY <1>1, <2>2, <3>3, <3>4 DEF WindowTypeOK
  <2> QED
    BY <1>8, <2>1, <2>2
<1>10. /\ banner' \in {"none", "green", "red"} /\ banner_timers' \in 0 .. MaxTimers
       /\ BannerWillClear'
  <2>1. MaxTimers \in Nat \ {0}
    BY WindowAssumption
  <2> QED
    BY <1>1, <1>7, <2>1 DEF WindowIInv, WindowInv, WindowTypeOK, BannerWillClear
<1>11. WindowTypeOK'
  BY <1>1, <1>3, <1>6, <1>9, <1>10 DEF WindowTypeOK, RegisterPanel, MemoryPanel
<1>12. RunButtonTellsRunning'
  BY <1>3, <1>6 DEF RunButtonTellsRunning
<1>13. PanelsInViewAreCurrent'
  <2>1. datapath' = Snapshot(ctl'.cpu) => datapath'.cycle = ctl'.cpu.cycle
    BY <1>5, SnapshotType
  <2> QED
    BY <1>9, <2>1 DEF CleanIsDrawn, SchematicIsBehind, PanelsInViewAreCurrent
<1>14. MenuIsAtStage'
  BY <1>6 DEF MenuIsAtStage, Free, NoDialog, WindowIInv
<1>15. LoadAsked /\ MenuToggles
  BY <1>3 DEF LoadAsked, MenuToggles
<1> QED
  BY <1>9, <1>10, <1>11, <1>12, <1>13, <1>14, <1>15 DEF WindowSafe, WindowIInv, WindowInv

(* Loading or asking: nothing is discarded while the machine has moved. *)
LEMMA LoadPreserves ==
  ASSUME WindowIInv, NEW p \in Programs, Free, LoadOrAsk(p)
  PROVE  WindowSafe
<1>1. ctl \in Controller /\ dialog.kind = "none"
  BY DEF WindowIInv, WindowInv, WindowTypeOK, Free, NoDialog
<1>2. CASE confirmNeeded(ctl)
  <2>1. /\ dialog' = [kind |-> "discard", program |-> p]
        /\ UNCHANGED <<ctl, run_state, datapath, cycles_lbl, stats_lbl, registers, memory,
                       assembled, banner, banner_timers>>
    BY <1>2 DEF LoadOrAsk
  <2>2. dialog' \in Dialog /\ dialog'.kind = "discard"
    BY <2>1 DEF Dialog
  <2>3. MenuIsAtStage'
    BY <2>2 DEF MenuIsAtStage
  <2>4. WindowIInv' /\ StopShown
    BY <2>1, <2>2, <2>3, ControlPreserves
       DEF WindowIInv, WindowInv, WindowTypeOK, RunButtonTellsRunning
  <2> QED
    BY <2>1, <2>4 DEF WindowSafe, LoadAsked, MenuToggles
<1>3. CASE ~confirmNeeded(ctl)
  <2> DEFINE c == loadProgram(reset(stop(ctl)), p)
  <2>1. ResetTo(c) /\ UNCHANGED <<assembled, dialog>>
    BY <1>3 DEF LoadOrAsk
  <2>2. c \in Controller /\ ~c.active /\ c.cpu.cycle = 0
    BY <1>1, StopType, ResetType, LoadType, LoadedMachine
  <2> HIDE DEF c
  <2>3. WindowIInv' /\ StopShown
    BY <2>1, <2>2, ResetPreserves DEF Free
  <2> QED
    BY <1>1, <1>3, <2>3 DEF WindowSafe, LoadAsked, MenuToggles, confirmNeeded
<1> QED
  BY <1>2, <1>3

(* Every step preserves the invariant and has the three action properties. *)
LEMMA WindowStep ==
  ASSUME WindowIInv, WindowNext
  PROVE  WindowSafe
<1>1. /\ ctl \in Controller /\ run_state \in BOOLEAN /\ (run_state <=> ctl.active)
      /\ assembled \in Programs \cup {NoProgram} /\ dialog \in Dialog
      /\ ctl.active \in BOOLEAN
  BY DEF WindowIInv, WindowInv, WindowTypeOK, RunButtonTellsRunning, Controller
<1>2. Free => dialog.kind = "none"
  BY DEF Free, NoDialog
<1>3. CASE OnStep
  <2>1. PICK o \in Outcomes : Stepped(stop(ctl), FALSE, o)
    BY <1>3 DEF OnStep
  <2>2. ~stop(ctl).active /\ Free
    BY <1>1, <1>3, StopType DEF OnStep
  <2> QED
    BY <2>1, <2>2, SteppedPreserves
<1>4. CASE OnRunTimer
  <2>1. PICK o \in Outcomes : Stepped(ctl, run_state, o)
    BY <1>4 DEF OnRunTimer
  <2> QED
    BY <1>1, <1>4, <2>1, SteppedPreserves DEF OnRunTimer
<1>5. CASE OnRunPause \/ OnStop
  <2>1. /\ ctl' \in {stop(ctl), run(ctl)} /\ run_state' \in BOOLEAN
        /\ run_state' <=> ctl'.active
    BY <1>1, <1>5, StopType DEF OnRunPause, OnStop
  <2>2. /\ Free
        /\ UNCHANGED <<datapath, cycles_lbl, stats_lbl, registers, memory, assembled, dialog,
                       banner, banner_timers>>
    BY <1>5 DEF OnRunPause, OnStop
  <2>3. /\ ctl' \in Controller /\ ctl'.cpu = ctl.cpu /\ ctl'.loaded = ctl.loaded
        /\ ctl'.breakpoints = ctl.breakpoints
    BY <1>1, <2>1, StopType
  <2>4. MenuIsAtStage'
    BY <1>2, <2>2 DEF MenuIsAtStage
  <2>5. WindowIInv' /\ StopShown
    BY <1>1, <2>1, <2>2, <2>3, <2>4, ControlPreserves
  <2> QED
    BY <2>3, <2>5 DEF WindowSafe, LoadAsked, MenuToggles
<1>6. CASE OnReset
  <2>1. /\ reset(stop(ctl)) \in Controller /\ ~reset(stop(ctl)).active
        /\ reset(stop(ctl)).cpu.cycle = 0 /\ reset(stop(ctl)).loaded = ctl.loaded
    BY <1>1, StopType, ResetType
  <2>2. ResetTo(reset(stop(ctl))) /\ assembled' = assembled /\ dialog' = NoDialog
    BY <1>6 DEF OnReset, Free
  <2>3. WindowIInv' /\ StopShown
    BY <2>1, <2>2, ResetPreserves
  <2>4. ctl'.loaded = ctl.loaded
    BY <2>1, <2>2 DEF ResetTo
  <2> QED
    BY <1>2, <1>6, <2>3, <2>4 DEF WindowSafe, LoadAsked, MenuToggles, OnReset
<1>7. CASE OnSpeed
  <2>1. PICK s \in WindowSpeeds : ctl' = setExecutionSpeed(ctl, s)
    BY <1>7 DEF OnSpeed
  <2>2. /\ ctl' \in Controller /\ ctl'.cpu = ctl.cpu /\ ctl'.loaded = ctl.loaded
        /\ ctl'.breakpoints = ctl.breakpoints /\ ctl'.active = ctl.active
    BY <1>1, <2>1, WindowAssumption, SpeedType
  <2>3. MenuIsAtStage'
    BY <1>2, <1>7 DEF MenuIsAtStage, OnSpeed
  <2>4. WindowIInv' /\ StopShown
    BY <1>1, <1>7, <2>2, <2>3, ControlPreserves DEF OnSpeed
  <2> QED
    BY <2>2, <2>4 DEF WindowSafe, LoadAsked, MenuToggles
<1>8. CASE OnOpenFile \/ OnLoad
  <2>1. Free /\ \E p \in Programs : LoadOrAsk(p)
    BY <1>1, <1>8 DEF OnOpenFile, OnLoad
  <2> QED
    BY <2>1, LoadPreserves
<1>9. CASE OnAssemble \/ OnExampleSelected \/ Cancel
           \/ (AnswerYes /\ dialog.kind = "replace")
  <2>1. UNCHANGED <<ctl, run_state, datapath, cycles_lbl, stats_lbl, registers, memory,
                    banner, banner_timers>>
    BY <1>9 DEF OnAssemble, OnExampleSelected, Cancel, AnswerYes
  <2>2. assembled' \in Programs \cup {NoProgram}
    BY <1>1, <1>9 DEF OnAssemble, OnExampleSelected, Cancel, AnswerYes
  <2>3. dialog' \in {NoDialog, [kind |-> "replace"]}
    BY <1>9 DEF OnAssemble, OnExampleSelected, Cancel, AnswerYes, Free
  <2>4. dialog' \in Dialog /\ dialog'.kind # "menu"
    BY <2>3 DEF Dialog, NoDialog
  <2>5. MenuIsAtStage'
    BY <2>4 DEF MenuIsAtStage
  <2>6. WindowIInv' /\ StopShown
    BY <1>1, <2>1, <2>2, <2>4, <2>5, ControlPreserves
  <2> QED
    BY <2>1, <2>6 DEF WindowSafe, LoadAsked, MenuToggles
<1>10. CASE AnswerYes /\ dialog.kind = "discard"
  <2> DEFINE c == loadProgram(reset(stop(ctl)), dialog.program)
  <2>1. ResetTo(c) /\ assembled' = assembled /\ dialog' = NoDialog
    BY <1>10 DEF AnswerYes
  <2>2. c \in Controller /\ ~c.active /\ c.cpu.cycle = 0
    BY <1>1, StopType, ResetType, LoadType, LoadedMachine
  <2> HIDE DEF c
  <2>3. WindowIInv' /\ StopShown
    BY <2>1, <2>2, ResetPreserves
  <2> QED
    BY <1>10, <2>3 DEF WindowSafe, LoadAsked, MenuToggles
<1>11. CASE OnBreakpointKey
  <2>1. datapath.ps.stage \in Pcs
    BY <1>11 DEF OnBreakpointKey, WindowIInv, WindowInv, WindowTypeOK, PipelineState
  <2>2. /\ ctl' \in Controller /\ ctl'.cpu = ctl.cpu /\ ctl'.loaded = ctl.loaded
        /\ ctl'.active = ctl.active
    BY <1>1, <1>11, <2>1, ToggleType DEF OnBreakpointKey
  <2>3. dialog.kind = "none" /\ MenuIsAtStage'
    BY <1>2, <1>11 DEF OnBreakpointKey, MenuIsAtStage
  <2>4. WindowIInv' /\ StopShown
    BY <1>1, <1>11, <2>2, <2>3, ControlPreserves DEF OnBreakpointKey
  <2> QED
    BY <2>2, <2>3, <2>4 DEF WindowSafe, LoadAsked, MenuToggles
<1>12. CASE OpenMenu
  <2>1. datapath.ps.stage \in Pcs
    BY <1>12 DEF OpenMenu, WindowIInv, WindowInv, WindowTypeOK, PipelineState
  <2> DEFINE b == ~ctl.active
  <2>2. b \in BOOLEAN
    OBVIOUS
  <2>3. dialog' = [kind |-> "menu", pc |-> datapath.ps.stage, stopped |-> b]
    BY <1>12 DEF OpenMenu
  <2> HIDE DEF b
  <2>4. /\ dialog' \in Dialog /\ dialog'.pc = datapath.ps.stage /\ dialog'.stopped = b
    BY <2>1, <2>2, <2>3 DEF Dialog
  <2>5. UNCHANGED <<ctl, run_state, datapath, cycles_lbl, stats_lbl, registers, memory,
                    assembled, banner, banner_timers>>
    BY <1>12 DEF OpenMenu
  <2>6. MenuIsAtStage'
    BY <2>4, <2>5 DEF MenuIsAtStage, b
  <2>7. WindowIInv' /\ StopShown
    BY <1>1, <2>4, <2>5, <2>6, ControlPreserves
  <2> QED
    BY <2>5, <2>7 DEF WindowSafe, LoadAsked, MenuToggles
<1>13. CASE ChooseBreakpoint
  <2>1. menuPc(datapath, ctl) \in Pcs
    BY ProcessorAssumption
       DEF menuPc, WindowIInv, WindowInv, WindowTypeOK, PipelineState
  <2>2. /\ ctl' = toggleBreakpoint(ctl, menuPc(datapath, ctl)) /\ dialog' = NoDialog
        /\ dialog.kind = "menu"
        /\ UNCHANGED <<run_state, datapath, cycles_lbl, stats_lbl, registers, memory,
                       assembled, banner, banner_timers>>
    BY <1>13 DEF ChooseBreakpoint
  <2>3. /\ ctl' \in Controller /\ ctl'.cpu = ctl.cpu /\ ctl'.loaded = ctl.loaded
        /\ ctl'.active = ctl.active
    BY <1>1, <2>1, <2>2, ToggleType
  <2>4. dialog' \in Dialog /\ dialog'.kind = "none"
    BY <2>2 DEF Dialog, NoDialog
  <2>5. MenuIsAtStage'
    BY <2>4 DEF MenuIsAtStage
  <2>6. WindowIInv' /\ StopShown
    BY <1>1, <2>2, <2>3, <2>4, <2>5, ControlPreserves
  <2>7. dialog.stopped => menuPc(datapath, ctl) = dialog.pc
    <3>1. dialog.pc \in Pcs
      BY <1>1, <2>2 DEF Dialog, NoDialog
    <3>2. dialog.pc # NoPc
      BY <3>1, ProcessorAssumption DEF NoPc
    <3> QED
      BY <2>2, <3>2 DEF WindowIInv, MenuIsAtStage, menuPc
  <2> QED
    BY <2>2, <2>3, <2>6, <2>7 DEF WindowSafe, LoadAsked, MenuToggles
<1>14. CASE ShowRegisters \/ ShowMemory \/ HidePanel \/ BannerTimeout
  <2>1. UNCHANGED <<ctl, run_state, datapath, cycles_lbl, stats_lbl, assembled, dialog>>
    BY <1>14 DEF ShowRegisters, ShowMemory, HidePanel, BannerTimeout
  <2>2. /\ registers \in RegisterPanel /\ memory \in MemoryPanel /\ ctl.cpu.cycle \in Cycle
        /\ CleanIsDrawn /\ SchematicIsBehind /\ PanelsInViewAreCurrent
        /\ banner \in {"none", "green", "red"} /\ banner_timers \in 0 .. MaxTimers
        /\ BannerWillClear
    BY DEF WindowIInv, WindowInv, WindowTypeOK, RegisterPanel, MemoryPanel, Controller, Machine
  <2>3. /\ registers' \in RegisterPanel /\ CleanIsDrawn'
        /\ registers'.visible => registers'.drawn = registers'.held
    <3>1. \/ registers' = registers
          \/ registers' = [registers EXCEPT !.visible = FALSE]
          \/ ~registers.dirty /\ registers' = [registers EXCEPT !.visible = TRUE]
          \/ registers' = [registers EXCEPT !.visible = TRUE, !.dirty = FALSE,
                                           !.drawn = registers.held]
      BY <1>14, <2>2, Zenon DEF ShowRegisters, ShowMemory, HidePanel, BannerTimeout
    <3> QED
      BY <2>2, <3>1 DEF RegisterPanel, CleanIsDrawn
  <2>4. /\ memory' \in MemoryPanel
        /\ memory'.visible => memory'.shown = ctl.cpu.cycle \/ memory' = memory
    <3>1. \/ memory' = memory
          \/ memory' = [memory EXCEPT !.visible = FALSE]
          \/ memory' = [visible |-> TRUE, shown |-> ctl.cpu.cycle]
      BY <1>14, <2>2, Zenon DEF ShowRegisters, ShowMemory, HidePanel, BannerTimeout
    <3>2. CASE memory' = [memory EXCEPT !.visible = FALSE]
      BY <2>2, <3>2 DEF MemoryPanel
    <3>3. CASE memory' = [visible |-> TRUE, shown |-> ctl.cpu.cycle]
      BY <2>2, <3>3 DEF MemoryPanel
    <3> QED
      BY <2>2, <3>1, <3>2, <3>3
  <2>5. /\ banner' \in {"none", "green", "red"} /\ banner_timers' \in 0 .. MaxTimers
        /\ BannerWillClear'
    <3>1. \/ UNCHANGED <<banner, banner_timers>>
          \/ /\ banner_timers > 0 /\ banner_timers' = banner_timers - 1
             /\ banner' = "none"
      BY <1>14 DEF ShowRegisters, ShowMemory, HidePanel, BannerTimeout
    <3>2. MaxTimers \in Nat
      BY WindowAssumption
    <3> QED
      BY <2>2, <3>1, <3>2 DEF BannerWillClear
  <2>6. WindowTypeOK'
    BY <2>1, <2>3, <2>4, <2>5
       DEF WindowIInv, WindowInv, WindowTypeOK, RegisterPanel, MemoryPanel
  <2>7. RunButtonTellsRunning' /\ MenuIsAtStage'
    BY <2>1 DEF WindowIInv, WindowInv, RunButtonTellsRunning, MenuIsAtStage
  <2>8. SchematicIsBehind' /\ PanelsInViewAreCurrent'
    BY <2>1, <2>2, <2>3, <2>4 DEF SchematicIsBehind, PanelsInViewAreCurrent
  <2> QED
    BY <2>1, <2>3, <2>5, <2>6, <2>7, <2>8
       DEF WindowSafe, WindowIInv, WindowInv, LoadAsked, StopShown, MenuToggles
<1> QED
  <2>1. AnswerYes => dialog.kind \in {"discard", "replace"}
    BY DEF AnswerYes
  <2> QED
    BY <1>3, <1>4, <1>5, <1>6, <1>7, <1>8, <1>9, <1>10, <1>11, <1>12, <1>13, <1>14, <2>1
       DEF WindowNext

(* Stuttering leaves everything as it was. *)
LEMMA WindowStutters ==
  ASSUME WindowIInv, UNCHANGED windowVars
  PROVE  WindowIInv'
  BY DEF windowVars, WindowIInv, WindowInv, WindowTypeOK, RunButtonTellsRunning,
         PanelsInViewAreCurrent, BannerWillClear, CleanIsDrawn, SchematicIsBehind, MenuIsAtStage

-----------------------------------------------------------------------------
(* The results *)

LEMMA WindowInductive == WindowSpec => []WindowIInv
<1>1. WindowIInv /\ [WindowNext]_windowVars => WindowIInv'
  BY WindowStep, WindowStutters DEF WindowSafe
<1> QED
  BY WindowInitial, <1>1, PTL DEF WindowSpec

(* In every order of user commands, timer steps below an open dialog,      *)
(* answers and panel changes, the Run/Pause action tells whether the       *)
(* machine runs, the panels in view are current and a coloured status bar  *)
(* has a timer that will clear it.                                         *)
THEOREM WindowIsConsistent == WindowSpec => []WindowInv
  BY WindowInductive, PTL DEF WindowIInv

(* No load replaces the program of a machine that has moved unless the     *)
(* user has answered the question, and the context menu of a stopped       *)
(* machine toggles the instruction it was opened on, though it reads the   *)
(* stage only when the item is chosen: whatever the run timer does below   *)
(* the dialog.                                                             *)
THEOREM DialogsKeepTheirWord == WindowSpec => DialogsDoAsAsked
<1>1. WindowIInv /\ [WindowNext]_windowVars => [LoadAsked]_windowVars
  BY WindowStep DEF WindowSafe
<1>2. WindowIInv /\ [WindowNext]_windowVars => [MenuToggles]_windowVars
  BY WindowStep DEF WindowSafe
<1>3. WindowSpec => LoadAsksFirst
  BY WindowInductive, <1>1, PTL DEF WindowSpec, LoadAsksFirst, LoadAsked
<1>4. WindowSpec => MenuTogglesItsInstruction
  BY WindowInductive, <1>2, PTL DEF WindowSpec, MenuTogglesItsInstruction, MenuToggles
<1> QED
  BY <1>3, <1>4, PTL DEF DialogsDoAsAsked

(* Whatever stops the machine, the schematic, the statistics, the panels   *)
(* and the cycle label show the machine as it stopped: throttling hides    *)
(* nothing.                                                                *)
THEOREM StopsAreShown == WindowSpec => StopIsShown
<1>1. WindowIInv /\ [WindowNext]_windowVars => [StopShown]_windowVars
  BY WindowStep DEF WindowSafe
<1> QED
  BY WindowInductive, <1>1, PTL DEF WindowSpec, StopIsShown, StopShown

-----------------------------------------------------------------------------
(* The terminal *)

(* The trace is a sequence, which UiTypeOK says only of its entries. *)
UiIInv == UiInv /\ exec_trace \in Seq(Nat)

-----------------------------------------------------------------------------
(* Pages of the memory view *)

LEMMA Products ==
  ASSUME NEW n \in Nat \ {0}, NEW q \in Int
  PROVE  (n * q) % n = 0 /\ (n * q) \div n = q
<1> DEFINE x == n * q
           d == x \div n
           e == x % n
<1>1. n \in Nat \ {0} /\ x \in Int
  OBVIOUS
<1> HIDE DEF x
<1>2. d \in Int /\ e \in 0 .. n - 1 /\ x = n * d + e
  BY <1>1
<1> HIDE DEF d, e
<1>3. e = n * (q - d)
  <2>1. n * (q - d) = n * q - n * d
    BY <1>2
  <2> QED BY <1>1, <1>2, <2>1 DEF x
<1>4. q - d = 0
  <2> DEFINE k == q - d
  <2>1. k \in Int
    BY <1>2
  <2> HIDE DEF k
  <2>2. k >= 1 => n * k >= n
    BY <1>1, <2>1
  <2>3. k <= -1 => n * k <= -n
    BY <1>1, <2>1
  <2>4. n * k \in 0 .. n - 1
    BY <1>2, <1>3 DEF k
  <2>5. k = 0
    BY <1>1, <2>1, <2>2, <2>3, <2>4
  <2> QED BY <2>5 DEF k
<1>5. d = q /\ e = 0
  BY <1>2, <1>3, <1>4
<1> QED BY <1>5 DEF d, e, x

(* Addresses that start a page. *)
LEMMA Pages ==
  ASSUME NEW b \in 0 .. AddressSpace - 1, b % Page = 0
  PROVE  /\ b >= Page => b - Page \in 0 .. AddressSpace - 1 /\ (b - Page) % Page = 0
         /\ (b + Page) % AddressSpace \in 0 .. AddressSpace - 1
         /\ ((b + Page) % AddressSpace) % Page = 0
<1>1. Page \in Nat \ {0} /\ AddressSpace \in Nat /\ AddressSpace > Page /\ AddressSpace % Page = 0
  BY TerminalAssumption
<1> DEFINE q == b \div Page
           r == AddressSpace \div Page
<1>2. q \in Int /\ r \in Int /\ b = Page * q /\ AddressSpace = Page * r
  BY <1>1
<1> HIDE DEF q, r
<1>3. Page * (q - 1) = b - Page /\ Page * (q + 1) = b + Page
  BY <1>1, <1>2
<1>4. (b - Page) % Page = 0 /\ (b + Page) % Page = 0
  <2>1. (Page * (q - 1)) % Page = 0 /\ (Page * (q + 1)) % Page = 0
    BY <1>1, <1>2, Products
  <2> QED BY <1>3, <2>1
<1>5. b + Page <= AddressSpace
  <2>1. q < r
    <3>1. q >= r => Page * q >= Page * r
      BY <1>1, <1>2
    <3> QED BY <1>1, <1>2, <3>1
  <2>2. Page * (q + 1) <= Page * r
    BY <1>1, <1>2, <2>1
  <2> QED BY <1>2, <1>3, <2>2
<1>6. CASE b + Page = AddressSpace
  <2>1. (b + Page) % AddressSpace = 0
    BY <1>1, <1>6
  <2>2. 0 % Page = 0
    BY <1>1
  <2> QED BY <1>1, <1>4, <2>1, <2>2
<1>7. CASE b + Page < AddressSpace
  <2>1. (b + Page) % AddressSpace = b + Page
    BY <1>1, <1>7
  <2> QED BY <1>1, <1>4, <1>7, <2>1
<1> QED BY <1>1, <1>5, <1>6, <1>7

LEMMA HomeIsPage ==
  ASSUME NEW m \in Machine
  PROVE  home(m) \in 0 .. AddressSpace - 1 /\ home(m) % Page = 0
<1>1. Page \in Nat \ {0} /\ AddressSpace \in Nat /\ m.pc \in 0 .. AddressSpace - 1
  BY TerminalAssumption DEF Machine
<1> DEFINE x == m.pc
           d == x \div Page
           e == x % Page
<1> HIDE DEF x
<1>2. x \in Int /\ x >= 0 /\ x < AddressSpace
  BY <1>1 DEF x
<1>3. d \in Int /\ e \in 0 .. Page - 1 /\ x = Page * d + e /\ d >= 0
  BY <1>1, <1>2
<1> HIDE DEF d, e
<1>4. (Page * d) % Page = 0 /\ Page * d >= 0
  BY <1>1, <1>3, Products
<1>5. x - e = Page * d
  BY <1>1, <1>3
<1>6. home(m) = x - e
  BY DEF home, x, e
<1> QED BY <1>1, <1>2, <1>3, <1>4, <1>5, <1>6
-----------------------------------------------------------------------------
(* The machine and what is counted of it *)

(* The execution trace t lists cycles up to n, in order. *)
Lists(t, n) ==
  \A i \in 1 .. Len(t) : t[i] \in 1 .. n /\ (i > 1 => t[i - 1] < t[i])

LEMMA TraceGrows ==
  ASSUME NEW t \in Seq(Nat), NEW n \in Nat, Lists(t, n), Len(t) <= TraceLength
  PROVE  LET a == Append(t, n + 1)
             u == IF Len(a) > TraceLength THEN Tail(a) ELSE a
         IN  u \in Seq(Nat) /\ Len(u) <= TraceLength /\ Lists(u, n + 1)
<1> DEFINE a == Append(t, n + 1)
<1>1. TraceLength \in Nat /\ Len(t) \in Nat
  BY TerminalAssumption
<1>2. /\ a \in Seq(Nat) /\ Len(a) = Len(t) + 1 /\ a[Len(t) + 1] = n + 1
      /\ \A i \in 1 .. Len(t) : a[i] = t[i]
  OBVIOUS
<1>3. \A i \in 1 .. Len(t) : t[i] \in 1 .. n /\ (i > 1 => t[i - 1] < t[i])
  BY DEF Lists
<1> HIDE DEF a
<1>4. Lists(a, n + 1)
  <2> SUFFICES ASSUME NEW i \in 1 .. Len(t) + 1
               PROVE  a[i] \in 1 .. n + 1 /\ (i > 1 => a[i - 1] < a[i])
    BY <1>2 DEF Lists
  <2>1. CASE i \in 1 .. Len(t)
    <3>1. a[i] = t[i] /\ t[i] \in 1 .. n
      BY <1>2, <1>3, <2>1
    <3>2. i > 1 => i - 1 \in 1 .. Len(t)
      BY <1>1, <2>1
    <3>3. i > 1 => a[i - 1] = t[i - 1] /\ t[i - 1] < t[i]
      BY <1>2, <1>3, <2>1, <3>2
    <3> QED BY <3>1, <3>3
  <2>2. CASE i = Len(t) + 1
    <3>1. i > 1 => i - 1 \in 1 .. Len(t)
      BY <1>1, <2>2
    <3>2. i > 1 => a[i - 1] = t[i - 1] /\ t[i - 1] \in 1 .. n
      BY <1>2, <1>3, <3>1
    <3>3. a[i] = n + 1
      BY <1>2, <2>2
    <3> QED BY <3>2, <3>3
  <2> QED BY <1>1, <2>1, <2>2
<1>5. CASE Len(a) > TraceLength
  <2> DEFINE u == Tail(a)
  <2>1. /\ u \in Seq(Nat) /\ Len(u) = Len(t)
        /\ \A i \in 1 .. Len(t) : u[i] = a[i + 1]
    <3>1. a # <<>>
      BY <1>1, <1>2
    <3>2. u \in Seq(Nat) /\ Len(u) = Len(a) - 1 /\ \A i \in 1 .. Len(u) : u[i] = a[i + 1]
      BY <1>2, <3>1
    <3> QED BY <1>1, <1>2, <3>2
  <2> HIDE DEF u
  <2>2. Lists(u, n + 1)
    <3> SUFFICES ASSUME NEW i \in 1 .. Len(t)
                 PROVE  u[i] \in 1 .. n + 1 /\ (i > 1 => u[i - 1] < u[i])
      BY <2>1 DEF Lists
    <3>1. i + 1 \in 1 .. Len(a) /\ u[i] = a[i + 1]
      BY <1>1, <1>2, <2>1
    <3>2. a[i + 1] \in 1 .. n + 1 /\ (i + 1 > 1 => a[(i + 1) - 1] < a[i + 1])
      BY <1>4, <3>1 DEF Lists
    <3>3. i > 1 => i - 1 \in 1 .. Len(t) /\ u[i - 1] = a[i] /\ a[(i + 1) - 1] = a[i]
      BY <1>1, <2>1
    <3> QED BY <1>1, <3>1, <3>2, <3>3
  <2> QED BY <1>5, <2>1, <2>2 DEF u, a
<1>6. CASE ~(Len(a) > TraceLength)
  BY <1>1, <1>2, <1>4, <1>6 DEF a
<1> QED BY <1>5, <1>6 DEF a

(* What UiIInv says of the machine, and of the two threads. *)
MachineOK ==
  /\ cpu \in Machine
  /\ loaded_program \in Fits \cup {NoProgram} /\ loader_ok \in BOOLEAN
  /\ tel \in Telemetry
  /\ exec_trace \in Seq(Nat) /\ Len(exec_trace) <= TraceLength
  /\ mem_base \in 0 .. AddressSpace - 1 /\ mem_base % Page = 0
  /\ MachineHasProgram
  /\ TelemetryIsOfThisRun
  /\ Lists(exec_trace, cpu.cycle)
ThreadsOK ==
  /\ tab \in Tabs
  /\ auto_run \in BOOLEAN /\ app_live \in BOOLEAN
  /\ pending \in 0 .. MaxPending
  /\ ticker \in {"test", "sleep", "post", "ended"}
  /\ idle_tick \in 0 .. IdlePeriod - 1
  /\ ui \in {"loop", "left", "join", "returned"}
  /\ ScreenOutlivesTicker

LEMMA TwoParts == UiIInv <=> MachineOK /\ ThreadsOK
  BY DEF UiIInv, UiInv, UiTypeOK, MachineOK, ThreadsOK, TraceIsOfThisRun, Lists

LEMMA MachineUnchanged == MachineOK /\ UNCHANGED machineVars => MachineOK'
  BY DEF MachineOK, machineVars, MachineHasProgram, TelemetryIsOfThisRun, Lists

LEMMA EmptyMachine ==
  /\ PoweredOn \in Machine /\ NoTelemetry \in Telemetry
  /\ 0 \in 0 .. AddressSpace - 1 /\ 0 % Page = 0
  /\ <<>> \in Seq(Nat) /\ Len(<<>>) <= TraceLength
  /\ \A n \in Nat : Lists(<<>>, n)
<1>1. 0 \in Cycle /\ 0 \in Pcs /\ NoPipelineState \in PipelineState
  BY ProcessorAssumption DEF Cycle, NoPipelineState, PipelineState
<1>2. PoweredOn \in Machine
  BY <1>1 DEF PoweredOn, Machine
<1>3. NoTelemetry \in Telemetry
  BY DEF NoTelemetry, Telemetry
<1>4. 0 \in 0 .. AddressSpace - 1 /\ 0 % Page = 0 /\ TraceLength \in Nat
  BY TerminalAssumption
<1> QED BY <1>2, <1>3, <1>4 DEF Lists

LEMMA LoadsMachine ==
  ASSUME NEW p
  PROVE  LET m == load_program(PoweredOn, p) IN
         /\ m \in Machine /\ m.cycle = 0
         /\ m.program = IF p \in Fits THEN p ELSE NoProgram
<1>1. PoweredOn \in Machine /\ PoweredOn.cycle = 0 /\ PoweredOn.program = NoProgram /\ 0 \in Pcs
  BY EmptyMachine, ProcessorAssumption DEF PoweredOn
<1> QED BY <1>1 DEF load_program, Machine

(* A machine with nothing behind it: reset, model switch and load. *)
LEMMA StartsOver ==
  ASSUME cpu' = load_program(PoweredOn, loaded_program'), reset_tel, mem_base' = 0,
         loaded_program' \in Fits \cup {NoProgram}, loader_ok' \in BOOLEAN,
         loader_ok' <=> loaded_program' # NoProgram
  PROVE  MachineOK'
<1>1. NoProgram \notin Fits
  BY ProcessorAssumption
<1>2. cpu' \in Machine /\ cpu'.cycle = 0 /\ cpu'.program = loaded_program'
  BY <1>1, LoadsMachine
<1>3. tel' = NoTelemetry /\ exec_trace' = <<>>
  BY DEF reset_tel
<1>4. TelemetryIsOfThisRun'
  BY <1>2, <1>3 DEF TelemetryIsOfThisRun, NoTelemetry
<1>5. Lists(exec_trace', cpu'.cycle)
  BY <1>2, <1>3, EmptyMachine
<1>6. MachineHasProgram'
  BY <1>2 DEF MachineHasProgram
<1> QED BY <1>2, <1>3, <1>4, <1>5, <1>6, EmptyMachine DEF MachineOK

(* n cycles more, below the bound. *)
LEMMA CyclesAdvance ==
  ASSUME NEW m \in Machine, NEW o \in Outcomes, NEW n \in Nat, m.cycle + n <= MaxCycles
  PROVE  /\ m.cycle \in Nat /\ o.pc \in Pcs /\ o.ps \in PipelineState
         /\ (m.cycle + n) % CycleWidth = m.cycle + n
         /\ m.cycle + n \in Cycle
<1>1. m.cycle \in Cycle /\ o.pc \in Pcs /\ o.ps \in PipelineState
  BY ProcessorAssumption DEF Machine
<1>2. MaxCycles \in Nat /\ MaxCycles < CycleWidth /\ CycleWidth \in Nat \ {0}
  BY TerminalAssumption, ProcessorAssumption
<1> DEFINE k == m.cycle
<1> HIDE DEF k
<1>3. k \in Nat /\ k + n < CycleWidth
  BY <1>1, <1>2 DEF k, Cycle
<1>4. (k + n) % CycleWidth = k + n
  BY <1>2, <1>3
<1> QED BY <1>1, <1>2, <1>3, <1>4 DEF k, Cycle

LEMMA StepKeeps ==
  ASSUME MachineOK, do_step
  PROVE  MachineOK'
<1>1. PICK o \in Outcomes :
        /\ cpu.cycle < MaxCycles
        /\ cpu' = step(cpu, o)
        /\ tel' = [cycles   |-> tel.cycles + 1,
                   stalls   |-> tel.stalls + Count(o.ps.load_stall),
                   forwards |-> tel.forwards + Count(o.ps.forwards),
                   flushes  |-> tel.flushes + Count(o.ps.branch_flush),
                   retired  |-> tel.retired + Count(o.ps.retired)]
        /\ exec_trace' =
             IF o.ps.stage = NoPc THEN exec_trace
             ELSE LET t == Append(exec_trace, cpu'.cycle)
                  IN  IF Len(t) > TraceLength THEN Tail(t) ELSE t
        /\ UNCHANGED <<loaded_program, loader_ok, mem_base>>
  BY DEF do_step
<1>2. cpu \in Machine /\ cpu.cycle \in Nat /\ cpu.cycle + 1 <= MaxCycles
  BY <1>1, TerminalAssumption DEF MachineOK, Machine, Cycle
<1>3. /\ o.pc \in Pcs /\ o.ps \in PipelineState
      /\ (cpu.cycle + 1) % CycleWidth = cpu.cycle + 1 /\ cpu.cycle + 1 \in Cycle
  BY <1>2, CyclesAdvance
<1>4. cpu' \in Machine /\ cpu'.cycle = cpu.cycle + 1 /\ cpu'.program = cpu.program
  <2> DEFINE k == (cpu.cycle + 1) % CycleWidth
             q == o.pc
             z == o.ps
  <2>1. cpu' = [cpu EXCEPT !.cycle = k, !.pc = q, !.ps = z]
    BY <1>1 DEF step
  <2>2. k \in Cycle /\ q \in Pcs /\ z \in PipelineState /\ k = cpu.cycle + 1
    BY <1>3
  <2> HIDE DEF k, q, z
  <2> QED BY <1>2, <2>1, <2>2 DEF Machine
<1>5. /\ Count(o.ps.load_stall) \in 0 .. 1 /\ Count(o.ps.forwards) \in 0 .. 1
      /\ Count(o.ps.branch_flush) \in 0 .. 1 /\ Count(o.ps.retired) \in 0 .. 1
  BY DEF Count
<1>6. tel' \in Telemetry /\ TelemetryIsOfThisRun'
  <2>1. /\ tel.cycles \in Nat /\ tel.cycles = cpu.cycle
        /\ tel.stalls \in 0 .. tel.cycles /\ tel.forwards \in 0 .. tel.cycles
        /\ tel.flushes \in 0 .. tel.cycles /\ tel.retired \in 0 .. tel.cycles
    BY DEF MachineOK, Telemetry, TelemetryIsOfThisRun
  <2>2. /\ tel'.cycles = tel.cycles + 1
        /\ tel'.stalls \in 0 .. tel.cycles + 1 /\ tel'.forwards \in 0 .. tel.cycles + 1
        /\ tel'.flushes \in 0 .. tel.cycles + 1 /\ tel'.retired \in 0 .. tel.cycles + 1
    <3>1. \A k \in 0 .. tel.cycles, b \in 0 .. 1 : k + b \in 0 .. tel.cycles + 1
      BY <2>1
    <3>2. /\ tel.stalls + Count(o.ps.load_stall) \in 0 .. tel.cycles + 1
          /\ tel.forwards + Count(o.ps.forwards) \in 0 .. tel.cycles + 1
          /\ tel.flushes + Count(o.ps.branch_flush) \in 0 .. tel.cycles + 1
          /\ tel.retired + Count(o.ps.retired) \in 0 .. tel.cycles + 1
      BY <1>5, <2>1, <3>1
    <3> QED BY <1>1, <3>2
  <2>3. tel' \in Telemetry
    <3> DEFINE c == tel.cycles + 1
               s == tel.stalls + Count(o.ps.load_stall)
               f == tel.forwards + Count(o.ps.forwards)
               l == tel.flushes + Count(o.ps.branch_flush)
               r == tel.retired + Count(o.ps.retired)
    <3>1. c \in Nat /\ s \in Nat /\ f \in Nat /\ l \in Nat /\ r \in Nat
      BY <1>5, <2>1
    <3>2. tel' = [cycles |-> c, stalls |-> s, forwards |-> f, flushes |-> l, retired |-> r]
      BY <1>1
    <3> HIDE DEF c, s, f, l, r
    <3> QED BY <3>1, <3>2 DEF Telemetry
  <2> QED BY <1>4, <2>1, <2>2, <2>3 DEF TelemetryIsOfThisRun
<1>7. /\ exec_trace' \in Seq(Nat) /\ Len(exec_trace') <= TraceLength
      /\ Lists(exec_trace', cpu'.cycle)
  <2>1. /\ exec_trace \in Seq(Nat) /\ Len(exec_trace) <= TraceLength
        /\ Lists(exec_trace, cpu.cycle)
    BY DEF MachineOK
  <2>2. CASE o.ps.stage = NoPc
    <3>1. Lists(exec_trace, cpu.cycle + 1)
      BY <1>2, <2>1 DEF Lists
    <3> QED BY <1>1, <1>4, <2>1, <2>2, <3>1
  <2>3. CASE o.ps.stage # NoPc
    BY <1>1, <1>2, <1>4, <2>1, <2>3, TraceGrows
  <2> QED BY <2>2, <2>3
<1>8. MachineHasProgram'
  BY <1>1, <1>4 DEF MachineOK, MachineHasProgram
<1> QED BY <1>1, <1>4, <1>6, <1>7, <1>8 DEF MachineOK

(* A run to halt adds cycles, and no event that the telemetry counts. *)
LEMMA RunKeeps ==
  ASSUME MachineOK, NEW o \in Outcomes, NEW n \in 1 .. RunBudget,
         cpu.cycle + n <= MaxCycles, cpu' = run_for(cpu, o, n),
         tel' = RunTelemetry, exec_trace' = <<>>,
         UNCHANGED <<loaded_program, loader_ok, mem_base>>
  PROVE  MachineOK'
<1>1. cpu \in Machine /\ n \in Nat /\ n >= 1
  BY TerminalAssumption DEF MachineOK
<1>2. /\ cpu.cycle \in Nat /\ o.pc \in Pcs /\ o.ps \in PipelineState
      /\ (cpu.cycle + n) % CycleWidth = cpu.cycle + n /\ cpu.cycle + n \in Cycle
  BY <1>1, CyclesAdvance
<1>3. cpu' \in Machine /\ cpu'.cycle = cpu.cycle + n /\ cpu'.program = cpu.program
  <2> DEFINE k == (cpu.cycle + n) % CycleWidth
             q == o.pc
             z == o.ps
  <2>1. cpu' = [cpu EXCEPT !.cycle = k, !.pc = q, !.ps = z]
    BY DEF run_for
  <2>2. k \in Cycle /\ q \in Pcs /\ z \in PipelineState /\ k = cpu.cycle + n
    BY <1>2
  <2> HIDE DEF k, q, z
  <2> QED BY <1>1, <2>1, <2>2 DEF Machine
<1>4. tel' \in Telemetry /\ TelemetryIsOfThisRun'
  <2>1. /\ tel \in Telemetry /\ tel.cycles \in Nat /\ tel.cycles = cpu.cycle
        /\ tel.stalls \in 0 .. tel.cycles /\ tel.forwards \in 0 .. tel.cycles
        /\ tel.flushes \in 0 .. tel.cycles /\ tel.retired \in 0 .. tel.cycles
    BY DEF MachineOK, Telemetry, TelemetryIsOfThisRun
  <2> DEFINE c == cpu'.cycle
  <2>2. tel' = [tel EXCEPT !.cycles = c] /\ c \in Nat /\ tel.cycles <= c
    BY <1>1, <1>2, <1>3, <2>1 DEF RunTelemetry
  <2>3. \A k \in 0 .. tel.cycles : k \in 0 .. c
    BY <2>1, <2>2
  <2> HIDE DEF c
  <2>4. /\ tel' \in Telemetry /\ tel'.cycles = c
        /\ tel'.stalls = tel.stalls /\ tel'.forwards = tel.forwards
        /\ tel'.flushes = tel.flushes /\ tel'.retired = tel.retired
    BY <2>1, <2>2 DEF Telemetry
  <2> QED BY <2>1, <2>3, <2>4 DEF TelemetryIsOfThisRun, c
<1>5. /\ exec_trace' \in Seq(Nat) /\ Len(exec_trace') <= TraceLength
      /\ Lists(exec_trace', cpu'.cycle)
  BY <1>2, <1>3, EmptyMachine DEF Cycle
<1>6. MachineHasProgram'
  BY <1>3 DEF MachineOK, MachineHasProgram
<1> QED BY <1>3, <1>4, <1>5, <1>6 DEF MachineOK

LEMMA MemoryMoves == MachineOK /\ MoveMemory => MachineOK'
<1> SUFFICES ASSUME MachineOK, MoveMemory PROVE MachineOK'
  OBVIOUS
<1>1. cpu \in Machine /\ mem_base \in 0 .. AddressSpace - 1 /\ mem_base % Page = 0
  BY DEF MachineOK
<1>2. \/ mem_base >= Page /\ mem_base' = mem_base - Page
      \/ mem_base' = 0
      \/ mem_base' = (mem_base + Page) % AddressSpace
      \/ mem_base' = home(cpu)
  BY DEF MoveMemory
<1>3. mem_base' \in 0 .. AddressSpace - 1 /\ mem_base' % Page = 0
  BY <1>1, <1>2, Pages, HomeIsPage, EmptyMachine
<1> QED
  BY <1>3 DEF MoveMemory, MachineOK, MachineHasProgram, TelemetryIsOfThisRun, Lists

-----------------------------------------------------------------------------
(* The two threads *)

LEMMA UiInitial == UiInit => UiIInv
<1> SUFFICES ASSUME UiInit PROVE MachineOK /\ ThreadsOK
  BY TwoParts
<1>1. MachineOK
  <2>1. TelemetryIsOfThisRun
    BY DEF UiInit, TelemetryIsOfThisRun, NoTelemetry, PoweredOn
  <2>2. MachineHasProgram /\ Lists(exec_trace, cpu.cycle)
    BY EmptyMachine DEF UiInit, MachineHasProgram, PoweredOn
  <2> QED BY <2>1, <2>2, EmptyMachine DEF UiInit, MachineOK
<1>2. ThreadsOK
  <2>1. 0 \in 0 .. MaxPending /\ 0 \in 0 .. IdlePeriod - 1
    BY TerminalAssumption
  <2>2. /\ tab = 0 /\ auto_run = FALSE /\ app_live = TRUE /\ pending = 0
        /\ ticker = "test" /\ idle_tick = 0 /\ ui = "loop"
    BY DEF UiInit
  <2>3. auto_run \in BOOLEAN /\ app_live \in BOOLEAN
    BY <2>2, Zenon
  <2>4. tab \in Tabs
    BY <2>2 DEF Tabs
  <2> QED BY <2>1, <2>2, <2>3, <2>4, Zenon DEF ThreadsOK, ScreenOutlivesTicker
<1> QED BY <1>1, <1>2

LEMMA UserKeeps ==
  ASSUME MachineOK, ThreadsOK, User
  PROVE  MachineOK' /\ ThreadsOK'
<1>1. ASSUME Step \/ ToggleAuto \/ RunToHalt \/ ResetCpu \/ Apply \/ Load \/ MoveMemory
      PROVE  /\ UNCHANGED <<app_live, pending, tickerVars, ui>>
             /\ tab' = tab /\ auto_run' \in BOOLEAN
  <2>1. auto_run \in BOOLEAN
    BY DEF ThreadsOK
  <2>2. CASE Step
    BY <2>1, <2>2, Zenon DEF Step, do_step
  <2>3. CASE ToggleAuto \/ RunToHalt \/ ResetCpu \/ Apply \/ Load \/ MoveMemory
    BY <2>1, <2>3 DEF ToggleAuto, RunToHalt, ResetCpu, Apply, Load, MoveMemory
  <2> QED BY <1>1, <2>2, <2>3
<1>2. ASSUME Step \/ ToggleAuto \/ RunToHalt \/ ResetCpu \/ Apply \/ Load \/ MoveMemory
      PROVE  ThreadsOK'
  BY <1>1, <1>2 DEF ThreadsOK, tickerVars, ScreenOutlivesTicker
<1>3. CASE Step
  BY <1>2, <1>3, StepKeeps DEF Step
<1>4. CASE ToggleAuto
  BY <1>2, <1>4, MachineUnchanged DEF ToggleAuto
<1>5. CASE RunToHalt
  <2>1. PICK o \in Outcomes, n \in 1 .. RunBudget :
          cpu.cycle + n <= MaxCycles /\ cpu' = run_for(cpu, o, n)
    BY <1>5 DEF RunToHalt
  <2>2. /\ tel' = RunTelemetry /\ exec_trace' = <<>>
        /\ UNCHANGED <<loaded_program, loader_ok, mem_base>>
    BY <1>5 DEF RunToHalt
  <2> QED BY <1>2, <1>5, <2>1, <2>2, RunKeeps
<1>6. CASE ResetCpu \/ Apply
  <2>1. /\ cpu' = load_program(PoweredOn, loaded_program) /\ reset_tel /\ mem_base' = 0
        /\ UNCHANGED <<loaded_program, loader_ok>>
    BY <1>6 DEF ResetCpu, Apply, AppliedCpu, restore_program
  <2>2. /\ loaded_program \in Fits \cup {NoProgram} /\ loader_ok \in BOOLEAN
        /\ loader_ok <=> loaded_program # NoProgram
    BY DEF MachineOK, MachineHasProgram
  <2>3. MachineOK'
    BY <2>1, <2>2, StartsOver
  <2> QED BY <1>2, <1>6, <2>3
<1>7. CASE Load
  <2>1. PICK p \in Programs \cup {NoProgram} :
          /\ cpu' = load_program(PoweredOn, p)
          /\ loaded_program' = IF p \in Fits THEN p ELSE NoProgram
          /\ loader_ok' = (p \in Fits)
    BY <1>7 DEF Load
  <2>2. NoProgram \notin Fits
    BY ProcessorAssumption
  <2>3. cpu' = load_program(PoweredOn, loaded_program')
    BY <2>1, <2>2 DEF load_program
  <2>4. /\ loaded_program' \in Fits \cup {NoProgram} /\ loader_ok' \in BOOLEAN
        /\ loader_ok' <=> loaded_program' # NoProgram
    <3>1. CASE p \in Fits
      BY <2>1, <2>2, <3>1
    <3>2. CASE p \notin Fits
      <4>1. loaded_program' = NoProgram
        BY <2>1, <3>2
      <4>2. (p \in Fits) = FALSE
        BY <3>2
      <4>3. loader_ok' = FALSE
        BY <2>1, <4>2
      <4> QED BY <4>1, <4>3, Zenon
    <3> QED BY <3>1, <3>2
  <2>5. reset_tel /\ mem_base' = 0
    BY <1>7 DEF Load
  <2>6. MachineOK'
    BY <2>3, <2>4, <2>5, StartsOver
  <2> QED BY <1>2, <1>7, <2>6
<1>8. CASE MoveMemory
  BY <1>2, <1>8, MemoryMoves
<1>9. CASE SelectTab \/ Exit
  <2>1. UNCHANGED machineVars
    BY <1>9 DEF SelectTab, Exit
  <2> QED BY <1>9, <2>1, MachineUnchanged
          DEF SelectTab, Exit, ThreadsOK, tickerVars, ScreenOutlivesTicker
<1> QED BY <1>3, <1>4, <1>5, <1>6, <1>7, <1>8, <1>9 DEF User

LEMMA CustomKeeps ==
  ASSUME MachineOK, ThreadsOK, HandleCustom
  PROVE  MachineOK' /\ ThreadsOK'
<1>1. pending > 0 /\ pending' = pending - 1 /\ UNCHANGED <<tab, app_live, tickerVars, ui>>
  BY DEF HandleCustom
<1>2. do_step \/ (UNCHANGED machineVars /\ auto_run' = auto_run)
  BY Zenon DEF HandleCustom
<1>3. MachineOK'
  BY <1>2, StepKeeps, MachineUnchanged
<1>4. auto_run' \in BOOLEAN
  <2>1. auto_run \in BOOLEAN
    BY DEF ThreadsOK
  <2> QED BY <1>2, <2>1, Zenon DEF do_step
<1> QED BY <1>1, <1>3, <1>4, TerminalAssumption DEF ThreadsOK, tickerVars, ScreenOutlivesTicker

(* The ticker touches no more than the queue and itself; once it has ended *)
(* it takes no step.                                                       *)
LEMMA TickerKeeps ==
  ASSUME MachineOK, ThreadsOK, Ticker \/ ShutDown \/ Join
  PROVE  MachineOK' /\ ThreadsOK'
<1>1. UNCHANGED machineVars
  BY DEF Ticker, TickerLoop, Wake, PostEvent, ShutDown, Join
<1>2. MachineOK'
  BY <1>1, MachineUnchanged
<1>3. CASE TickerLoop
  BY <1>2, <1>3 DEF ThreadsOK, TickerLoop, ScreenOutlivesTicker
<1>7. CASE PostEvent
  <2>1. pending' \in 0 .. MaxPending
    BY <1>7, TerminalAssumption DEF ThreadsOK, PostEvent
  <2> QED BY <1>2, <1>7, <2>1 DEF ThreadsOK, PostEvent, ScreenOutlivesTicker
<1>4. CASE Wake
  <2>1. idle_tick' = idle_tick \/ idle_tick' = (idle_tick + 1) % IdlePeriod
    BY <1>4 DEF Wake
  <2>2. idle_tick' \in 0 .. IdlePeriod - 1
    BY <2>1, TerminalAssumption DEF ThreadsOK
  <2> QED BY <1>2, <1>4, <2>2 DEF ThreadsOK, Wake, ScreenOutlivesTicker
<1>5. CASE ShutDown
  BY <1>2, <1>5 DEF ThreadsOK, ShutDown, tickerVars, ScreenOutlivesTicker
<1>6. CASE Join
  BY <1>2, <1>6 DEF ThreadsOK, Join, joined, tickerVars, ScreenOutlivesTicker
<1> QED BY <1>2, <1>3, <1>4, <1>5, <1>6, <1>7 DEF Ticker

LEMMA UiStep == UiIInv /\ [UiNext]_uiVars => UiIInv'
<1> SUFFICES ASSUME MachineOK, ThreadsOK, [UiNext]_uiVars
             PROVE  MachineOK' /\ ThreadsOK'
  <2>1. (UiIInv <=> MachineOK /\ ThreadsOK)'
    BY DEF UiIInv, UiInv, UiTypeOK, MachineOK, ThreadsOK, TraceIsOfThisRun, Lists
  <2> QED BY <2>1, TwoParts
<1>1. CASE UNCHANGED uiVars
  <2>1. UNCHANGED machineVars
    BY <1>1 DEF uiVars, machineVars
  <2> QED BY <1>1, <2>1, MachineUnchanged DEF ThreadsOK, uiVars, ScreenOutlivesTicker
<1> QED BY <1>1, UserKeeps, CustomKeeps, TickerKeeps DEF UiNext

-----------------------------------------------------------------------------
(* The results *)

LEMMA UiInductive == UiSpec => []UiIInv
  BY UiInitial, UiStep, PTL DEF UiSpec

(* In every interleaving of the ticker with the user's keys and buttons:   *)
(* the machine has the program the loader reports, telemetry and trace are *)
(* of the run on the screen, and the ticker never posts into a screen that *)
(* run_app() has destroyed.                                                *)
THEOREM TerminalIsConsistent == UiSpec => []UiInv
  BY UiInductive, PTL DEF UiIInv

(* An event posted during a run and handled after it was stopped moves     *)
(* nothing, and no key or button on a tab that only displays reaches the   *)
(* controls of another.                                                    *)
THEOREM OnlyControlsMoveMachine == UiSpec => OnlyControlsMove
<1>1. ASSUME UiIInv, UiNext, pending' < pending, ~auto_run
      PROVE  UNCHANGED machineVars
  <2>1. pending \in Nat
    BY <1>1, TwoParts DEF ThreadsOK
  <2>2. pending' # pending /\ pending' # pending + 1
    BY <1>1, <2>1
  <2>3. ~User
    BY <2>2 DEF User, Step, ToggleAuto, RunToHalt, ResetCpu, Apply, Load, MoveMemory,
                SelectTab, Exit
  <2>4. ~HandleCustom => UNCHANGED machineVars
    BY <1>1, <2>3 DEF UiNext, ShutDown, Join, Ticker, TickerLoop, Wake, PostEvent
  <2>5. HandleCustom => UNCHANGED machineVars
    BY <1>1, Zenon DEF HandleCustom, stepsOnCustom
  <2> QED BY <2>4, <2>5
<1>2. ASSUME UiIInv, UiNext, pending' >= pending, tab \in {4, 5}
      PROVE  UNCHANGED machineVars
  <2>1. pending \in Nat
    BY <1>2, TwoParts DEF ThreadsOK
  <2>2. focused = "none"
    BY <1>2 DEF focused, tab_children
  <2>3. ~HandleCustom
    BY <1>2, <2>1 DEF HandleCustom
  <2>4. ~Step /\ ~RunToHalt /\ ~ResetCpu /\ ~Apply /\ ~Load /\ ~MoveMemory
    BY <1>2, <2>2 DEF Step, RunToHalt, ResetCpu, Apply, Load, MoveMemory
  <2> QED
    BY <1>2, <2>3, <2>4 DEF UiNext, User, ToggleAuto, SelectTab, Exit, ShutDown, Join,
                            Ticker, TickerLoop, Wake, PostEvent
<1>3. UiIInv /\ [UiNext]_uiVars =>
        /\ [pending' < pending /\ ~auto_run => UNCHANGED machineVars]_uiVars
        /\ [pending' >= pending /\ tab \in {4, 5} => UNCHANGED machineVars]_uiVars
  BY <1>1, <1>2
<1> QED
  BY <1>3, UiInductive, PTL DEF UiSpec, OnlyControlsMove, StopIsAtOnce, DisplayTabsAreInert
=============================================================================
